---------------------------- MODULE Spec2Model ----------------------------
(***************************************************************************)
(* A model of trafilatura/core.py: the element rewriter, the candidate     *)
(* selector with wild-text recovery (extract_content), the arbiter         *)
(* (compare_extraction) and the post-filter (bare_extraction, extract).    *)
(*                                                                         *)
(* Element trees are kept in a heap: a sequence of element records, an     *)
(* element being its index.  The heap gives the rewriter what lxml gives   *)
(* it: elements are mutated in place, an element appended to another       *)
(* parent is moved there, and an element returned by a cleaner is the      *)
(* element that was passed in.                                             *)
(***************************************************************************)
EXTENDS Integers, Sequences, FiniteSets, TLC

NULL == 0          \* Python's None, for an element
ERR == 0 - 1       \* the result of a call that an exception has left

SP == " "
None == <<>>       \* an absent or empty string: a text is a sequence of characters
NoText == <<"NoText">>   \* the sentinel of _get_first_inline_text, a truthy value

NoAttr == [k \in {} |-> ""]

R(h, r) == [h |-> h, r |-> r]

-----------------------------------------------------------------------------
(* Strings *)

RECURSIVE LStrip(_)
LStrip(s) == IF s # <<>> /\ Head(s) = SP THEN LStrip(Tail(s)) ELSE s

RECURSIVE RStrip(_)
RStrip(s) == IF s # <<>> /\ s[Len(s)] = SP THEN RStrip(SubSeq(s, 1, Len(s) - 1)) ELSE s

Strip(s) == RStrip(LStrip(s))

\* two collapsed strings put together: one space where two meet
Meet(a, b) == IF a[Len(a)] = SP /\ b[1] = SP THEN a \o Tail(b) ELSE a \o b

RECURSIVE Collapse(_)
\* a run of spaces becomes one space; the string is collapsed by halves
Collapse(s) ==
    IF Len(s) < 2 THEN s
    ELSE Meet(Collapse(SubSeq(s, 1, Len(s) \div 2)),
              Collapse(SubSeq(s, Len(s) \div 2 + 1, Len(s))))

\* utils.trim: runs of white space become one space, the ends are stripped
trim(s) == Strip(Collapse(s))

RECURSIVE Join(_, _)
Join(chunks, sep) ==
    IF chunks = <<>> THEN <<>>
    ELSE IF Len(chunks) = 1 THEN chunks[1]
    ELSE chunks[1] \o sep \o Join(Tail(chunks), sep)

\* filters.text_chars_test: a string with a character that is not white space
text_chars_test(s) == \E i \in 1..Len(s) : s[i] # SP

\* The text filter and the duplicate test of the text-node cleaner reject a
\* string by its content; "#" stands for content they reject.
Filtered(s) == \E i \in 1..Len(s) : s[i] = "#"

PriorStop == {".", "?", "!", ",", ":", ";", ")"}
NextStop == {"[", "("}

should_have_space_prior(x) ==
    IF x = <<>> THEN TRUE
    ELSE IF x[1] = SP THEN FALSE
    ELSE IF x[1] \in PriorStop THEN FALSE
    ELSE TRUE

\* should_have_space_next without the test of the opening brackets
should_have_space_next_space_only(x) ==
    IF x = <<>> THEN TRUE
    ELSE IF x[Len(x)] = SP THEN FALSE
    ELSE TRUE

should_have_space_next(x) ==
    IF x = <<>> THEN TRUE
    ELSE IF x[Len(x)] = SP THEN FALSE
    ELSE IF x[Len(x)] \in NextStop THEN FALSE
    ELSE TRUE

-----------------------------------------------------------------------------
(* Elements *)

Node(tag) == [tag |-> tag, text |-> None, tail |-> None, at |-> NoAttr, kids |-> <<>>]

Get(a, k) == IF k \in DOMAIN a THEN a[k] ELSE ""

Put(a, k, v) == [x \in (DOMAIN a) \cup {k} |-> IF x = k THEN v ELSE a[x]]

IndexOf(s, x) == CHOOSE i \in 1..Len(s) : s[i] = x

Has(s, x) == \E i \in 1..Len(s) : s[i] = x

Without(s, x) == SelectSeq(s, LAMBDA y : y # x)

\* getparent
Parent(h, n) ==
    IF \E m \in 1..Len(h) : Has(h[m].kids, n)
    THEN CHOOSE m \in 1..Len(h) : Has(h[m].kids, n)
    ELSE NULL

\* parent.remove(n): the element leaves with its tail
Detach(h, n) ==
    LET p == Parent(h, n)
    IN  IF p = NULL THEN h ELSE [h EXCEPT ![p].kids = Without(@, n)]

\* parent.append(n): an element that has a parent is moved
AppendKid(h, p, n) ==
    LET h1 == Detach(h, n)
    IN  [h1 EXCEPT ![p].kids = Append(@, n)]

\* etree.SubElement(p, tag) with text and tail set; the new element is Len of the heap
SubElement(h, p, tag, text, tail) ==
    LET h1 == Append(h, [Node(tag) EXCEPT !.text = text, !.tail = tail])
    IN  [h1 EXCEPT ![p].kids = Append(@, Len(h1))]

RECURSIVE Iter(_, _), IterSeq(_, _)
\* element.iter('*') of a tree that is not changed meanwhile: document order
Iter(h, n) == <<n>> \o IterSeq(h, h[n].kids)
IterSeq(h, ks) == IF ks = <<>> THEN <<>> ELSE Iter(h, Head(ks)) \o IterSeq(h, Tail(ks))

Descendants(h, n) == Tail(Iter(h, n))

RECURSIVE IterText(_, _), IterTextSeq(_, _)
\* element.itertext(): text, then each child's text and tail, in document order
IterText(h, n) ==
    (IF h[n].text # None THEN <<h[n].text>> ELSE <<>>) \o IterTextSeq(h, h[n].kids)
IterTextSeq(h, ks) ==
    IF ks = <<>> THEN <<>>
    ELSE IterText(h, Head(ks))
         \o (IF h[Head(ks)].tail # None THEN <<h[Head(ks)].tail>> ELSE <<>>)
         \o IterTextSeq(h, Tail(ks))

text_content(h, n) == Join(IterText(h, n), <<>>)

\* trim(' '.join(body.itertext()))
FlatText(h, n) == trim(Join(IterText(h, n), <<SP>>))

RECURSIVE Root(_, _)
Root(h, n) == IF Parent(h, n) = NULL THEN n ELSE Root(h, Parent(h, n))

NextSibling(h, n) ==
    LET p == Parent(h, n)
    IN  IF p = NULL THEN NULL
        ELSE LET i == IndexOf(h[p].kids, n)
             IN  IF i < Len(h[p].kids) THEN h[p].kids[i + 1] ELSE NULL

RECURSIVE ClimbNext(_, _, _)
ClimbNext(h, n, top) ==
    IF n = top THEN NULL
    ELSE LET s == NextSibling(h, n)
         IN  IF s # NULL THEN s
             ELSE LET p == Parent(h, n)
                  IN  IF p = NULL \/ p = top THEN NULL ELSE ClimbNext(h, p, top)

\* The element that follows n in the traversal of top's subtree, as lxml's
\* depth-first iterator finds it in the tree as it is now.
NextAny(h, n, top) == IF h[n].kids # <<>> THEN h[n].kids[1] ELSE ClimbNext(h, n, top)

RECURSIVE NextMatch(_, _, _, _)
NextMatch(h, n, top, tags) ==
    LET c == NextAny(h, n, top)
    IN  IF c = NULL THEN NULL
        ELSE IF h[c].tag \in tags THEN c
        ELSE NextMatch(h, c, top, tags)

FirstMatch(h, top, tags) ==
    IF h[top].tag \in tags THEN top ELSE NextMatch(h, top, top, tags)

\* text put after what n holds now: on its last child's tail, or on its text
AddText(h, n, t) ==
    IF t = None THEN h
    ELSE IF h[n].kids = <<>> THEN [h EXCEPT ![n].text = @ \o t]
    ELSE LET l == h[n].kids[Len(h[n].kids)] IN [h EXCEPT ![l].tail = @ \o t]

RECURSIVE strip_tags(_, _, _), StripEach(_, _, _), Splice(_, _, _, _)
\* etree.strip_tags: every descendant with one of the tags is replaced by its
\* text, its children and its tail
strip_tags(h, n, tags) ==
    LET h1 == StripEach(h, h[n].kids, tags)
    IN  Splice([h1 EXCEPT ![n].kids = <<>>], n, h1[n].kids, tags)
StripEach(h, ks, tags) ==
    IF ks = <<>> THEN h ELSE StripEach(strip_tags(h, Head(ks), tags), Tail(ks), tags)
Splice(h, n, ks, tags) ==
    IF ks = <<>> THEN h
    ELSE LET k == Head(ks)
         IN  IF h[k].tag \in tags
             THEN LET h1 == AddText(h, n, h[k].text)
                      h2 == [h1 EXCEPT ![n].kids = @ \o h1[k].kids, ![k].kids = <<>>]
                      h3 == AddText(h2, n, h[k].tail)
                  IN  Splice(h3, n, Tail(ks), tags)
             ELSE Splice([h EXCEPT ![n].kids = Append(@, k)], n, Tail(ks), tags)

RECURSIVE strip_elements(_, _, _), StripElemsEach(_, _, _)
\* etree.strip_elements: every descendant with one of the tags leaves the tree
\* with its subtree and its tail
strip_elements(h, n, tags) ==
    LET keep == SelectSeq(h[n].kids, LAMBDA k : h[k].tag \notin tags)
    IN  StripElemsEach([h EXCEPT ![n].kids = keep], keep, tags)
StripElemsEach(h, ks, tags) ==
    IF ks = <<>> THEN h
    ELSE StripElemsEach(strip_elements(h, Head(ks), tags), Tail(ks), tags)

RECURSIVE CopyTree(_, _), CopyKids(_, _, _)
\* deepcopy(element): the copy is the last element of the new heap's first
\* Len(h) + size elements; CopyTree returns the heap and the copy
CopyTree(h, n) ==
    LET h1 == Append(h, [h[n] EXCEPT !.kids = <<>>])
    IN  CopyKids(h1, Len(h1), h[n].kids)
CopyKids(h, c, ks) ==
    IF ks = <<>> THEN R(h, c)
    ELSE LET k == CopyTree(h, Head(ks))
         IN  CopyKids([k.h EXCEPT ![c].kids = Append(@, k.r)], c, Tail(ks))

-----------------------------------------------------------------------------
(* Collaborators of core.py: the text-node cleaners of htmlprocessing *)

textfilter(h, e) ==
    LET tt == IF h[e].text = None /\ h[e].tail # None THEN h[e].tail ELSE h[e].text
    IN  ~text_chars_test(tt) \/ Filtered(tt)

\* htmlprocessing.process_node: the element itself, trimmed in place, or None
process_node(h, e) ==
    IF h[e].tag = "done" THEN R(h, NULL)
    ELSE IF h[e].kids = <<>> /\ h[e].text = None /\ h[e].tail = None THEN R(h, NULL)
    ELSE LET t == trim(h[e].text)
             tl == trim(h[e].tail)
             t2 == IF h[e].tag # "lb" /\ t = None /\ tl # None THEN tl ELSE t
             h1 == [h EXCEPT ![e].text = t2, ![e].tail = tl]
         IN  IF (t2 # None \/ tl # None) /\ textfilter(h1, e) THEN R(h1, NULL) ELSE R(h1, e)

\* htmlprocessing.handle_textnode: the element itself, changed in place, or None
handle_textnode(h, e, comments_fix, preserve_spaces) ==
    IF h[e].text = None /\ h[e].tail = None /\ h[e].kids = <<>> THEN R(h, NULL)
    ELSE IF ~comments_fix /\ h[e].tag = "lb"
    THEN R([h EXCEPT ![e].tail = IF preserve_spaces THEN @ ELSE trim(@)], e)
    ELSE LET h1 == IF h[e].text = None /\ h[e].kids = <<>>
                   THEN [h EXCEPT ![e].text = h[e].tail, ![e].tail = None,
                                  ![e].tag = IF comments_fix /\ @ = "lb" THEN "p" ELSE @]
                   ELSE h
             h2 == IF preserve_spaces THEN h1
                   ELSE [h1 EXCEPT ![e].text = trim(@), ![e].tail = trim(@)]
         IN  IF h2[e].text = None /\ textfilter(h2, e) THEN R(h2, NULL)
             ELSE IF Filtered(h2[e].text) THEN R(h2, NULL)
             ELSE R(h2, e)

\* htmlprocessing.clean_element_text: the cleaned text (or tail) of the element, or None
clean_element_text(h, e, from_tail) ==
    LET t == trim(IF from_tail THEN h[e].tail ELSE h[e].text)
    IN  IF Filtered(t) THEN None ELSE t

\* utils.is_image_file: by the file extension
ImageFiles == {"i.jpg", "//c/i.jpg"}
is_image_file(v) == v \in ImageFiles

\* the attribute names that start with data-src
DataSrcAttrs == {"data-src", "data-srcset"}

\* re.sub(r'^//', 'http://', url)
ProtocolFix(u) == IF u = "//c/i.jpg" THEN "http://c/i.jpg" ELSE u

-----------------------------------------------------------------------------
(* The element rewriter *)

FORMATTING_PROTECTED == {"cell", "head", "hi", "item", "p", "quote", "td"}
P_FORMATTING == {"hi", "ref", "del"}
TABLE_ELEMS == {"td", "th"}
TABLE_ALL == {"td", "th", "hi"}
FORMATTING == {"hi", "ref", "span"}
CODES_QUOTES == {"code", "quote"}
HEADINGS == {"fw", "head"}

RECURSIVE get_last_text(_, _)
get_last_text(h, e) ==
    IF e = NULL THEN None
    ELSE IF h[e].tail # None THEN h[e].tail
    ELSE LET t == IF h[e].kids # <<>> THEN get_last_text(h, h[e].kids[Len(h[e].kids)]) ELSE None
         IN  IF t # None THEN t ELSE h[e].text

RECURSIVE first_inline_text(_, _, _)
\* _get_first_inline_text
first_inline_text(h, e, is_root) ==
    IF ~is_root /\ h[e].tag \in {"graphic", "div", "p"} THEN NoText
    ELSE IF h[e].text # None THEN h[e].text
    ELSE LET t == IF h[e].kids # <<>> THEN first_inline_text(h, h[e].kids[1], FALSE) ELSE None
         IN  IF t # None THEN t
             ELSE IF h[e].text # None THEN h[e].text ELSE h[e].tail

get_first_inline_text(h, e) ==
    LET t == first_inline_text(h, e, TRUE)
    IN  IF t = NoText THEN None ELSE t

element_is_empty(h, res) ==
    \/ res = NULL
    \/ /\ h[res].kids = <<>>
       /\ h[res].text = None
       /\ h[res].tail = None
       /\ h[res].tag \in {"p", "span", "div", "hi", "head"}

RECURSIVE MoveKids(_, _, _)
\* for x in res: processed_element.append(x); the last one moved is returned
MoveKids(h, pe, ks) ==
    IF ks = <<>> THEN h ELSE MoveKids(AppendKid(h, pe, Head(ks)), pe, Tail(ks))

\* append_child returns the heap and, as r, last_element
append_child(h, pe, res, last, te) ==
    IF element_is_empty(h, res) THEN R(h, last)
    ELSE IF h[res].tag \in te
    THEN LET ks == h[res].kids
         IN  R(MoveKids(h, pe, ks), IF ks = <<>> THEN last ELSE ks[Len(ks)])
    ELSE LET h1 == IF /\ last # NULL
                      /\ should_have_space_prior(get_first_inline_text(h, res))
                      /\ should_have_space_next(get_last_text(h, last))
                   THEN [h EXCEPT ![last].tail = @ \o <<SP>>]
                   ELSE h
         IN  R(AppendKid(h1, pe, res), res)

handle_image(h, e) ==
    LET a == h[e].at
        src == IF is_image_file(Get(a, "data-src")) THEN Get(a, "data-src")
               ELSE IF is_image_file(Get(a, "src")) THEN Get(a, "src")
               ELSE IF \E k \in (DOMAIN a) \cap DataSrcAttrs : is_image_file(a[k])
               THEN a[CHOOSE k \in (DOMAIN a) \cap DataSrcAttrs : is_image_file(a[k])]
               ELSE ""
        a1 == IF src # "" THEN Put(NoAttr, "src", src) ELSE NoAttr
        a2 == [k \in (DOMAIN a1) \cup ((DOMAIN a) \cap {"alt", "class", "title"}) |->
                  IF k = "src" THEN src ELSE a[k]]
        h1 == Append(h, [Node(h[e].tag) EXCEPT !.at = a2])
    IN  IF DOMAIN a2 = {} \/ Get(a2, "src") = "" THEN R(h1, NULL)
        ELSE R([h1 EXCEPT ![Len(h1)].at = Put(a2, "src", ProtocolFix(src))], Len(h1))

\* the tags whose text and tail handle_paragraphs_child keeps as they are
PChildTags == P_FORMATTING \cup {"p", "div"} \cup FORMATTING \cup HEADINGS

\* the attributes handle_paragraphs_child carries over
PChildAttrs(h, child) ==
    LET a == h[child].at
        tg == h[child].tag
    IN  IF tg \in {"hi", "head"} /\ Get(a, "rend") # "" THEN Put(NoAttr, "rend", a["rend"])
        ELSE IF tg = "ref" /\ "target" \in DOMAIN a THEN Put(NoAttr, "target", a["target"])
        ELSE IF tg = "ref" /\ "href" \in DOMAIN a THEN Put(NoAttr, "target", a["href"])
        ELSE NoAttr

\* the end of handle_paragraphs_child: trimming and the spaces between the parts
HpcFinish(h, pe, is_root, is_last_of_root, has_tail, next_text) ==
    LET h1 == [h EXCEPT ![pe].text = trim(@), ![pe].tail = trim(@)]
        len == Len(h1[pe].kids)
        h2 == IF /\ h1[pe].tail # None
                 /\ (h1[pe].text # None \/ len > 0)
                 /\ should_have_space_prior(h1[pe].tail)
                 /\ should_have_space_next(h1[pe].text)
              THEN [h1 EXCEPT ![pe].tail = <<SP>> \o @] ELSE h1
        h3 == IF h2[pe].text # None /\ len > 0 /\ should_have_space_next(h2[pe].text)
              THEN [h2 EXCEPT ![pe].text = @ \o <<SP>>] ELSE h2
        h4 == IF /\ ~has_tail
                 /\ h3[pe].tail = None
                 /\ h3[pe].text # None
                 /\ ((~is_root /\ ~is_last_of_root) \/ len > 0)
                 /\ should_have_space_next(h3[pe].text)
              THEN [h3 EXCEPT ![pe].text = @ \o <<SP>>]
              ELSE IF /\ h3[pe].tail # None
                      /\ ~is_last_of_root
                      /\ ~is_root
                      /\ should_have_space_next(h3[pe].tail)
                      /\ should_have_space_prior(next_text)
              THEN [h3 EXCEPT ![pe].tail = @ \o <<SP>>]
              ELSE h3
    IN  IF element_is_empty(h4, pe) THEN R(h4, NULL) ELSE R(h4, pe)

RECURSIVE handle_paragraphs_child(_, _, _, _, _, _, _, _)
RECURSIVE handle_table(_, _, _, _)
RECURSIVE handle_textelem(_, _, _, _)
RECURSIVE HpcLoop(_, _, _, _, _, _, _, _)
RECURSIVE HpcEnum(_, _, _, _, _, _, _, _, _)

\* element.tag = 'done'
Done(h, e) == [h EXCEPT ![e].tag = "done"]

\* last_element = append_child(processed_element, res, last_element, ...),
\* of a result res that may be an exception
Appended(res, pe, last, te) ==
    IF res.r = ERR THEN res ELSE append_child(res.h, pe, res.r, last, te)

\* for _ce in _c, of a child _c that is an enumerable container; st.r is last_element
HpcEnum(st, ks, pe, pt, te, ilr, ht, nt, j) ==
    IF st.r = ERR \/ j > Len(ks) THEN st
    ELSE HpcEnum(Appended(handle_paragraphs_child(st.h, ks[j], pt, te, FALSE, ilr, ht, nt),
                          pe, st.r, te),
                 ks, pe, pt, te, ilr, ht, nt, j + 1)

\* one turn of the loop over enumerate_now_next(child); r is last_element
HpcChild(h, kids, i, pe, last, pt, te, is_root, has_tail) ==
    LET c == kids[i]
        nt == IF i < Len(kids) THEN get_first_inline_text(h, kids[i + 1]) ELSE None
        ht == has_tail \/ i < Len(kids) \/ h[pe].tail # None
        ilr == is_root /\ i = Len(kids)
    IN  IF h[c].tag \in te
        THEN HpcEnum(R(h, last), h[c].kids, pe, pt, te, ilr, ht, nt, 1)
        ELSE IF h[c].tag \notin pt THEN R(h, last)
        ELSE Appended(handle_paragraphs_child(h, c, pt, te, FALSE, ilr, ht, nt), pe, last, te)

\* for i, (_c, _next) in enumerate_now_next(child); st.r is last_element
HpcLoop(st, kids, i, pe, pt, te, is_root, has_tail) ==
    IF st.r = ERR \/ i > Len(kids) THEN st
    ELSE HpcLoop(HpcChild(st.h, kids, i, pe, st.r, pt, te, is_root, has_tail),
                 kids, i + 1, pe, pt, te, is_root, has_tail)

\* handle_paragraphs_child after its loop
HpcEnd(lp, pe, is_root, is_last_of_root, has_tail, next_text) ==
    IF lp.r = ERR THEN lp
    ELSE HpcFinish(lp.h, pe, is_root, is_last_of_root, has_tail, next_text)

\* handle_paragraphs_child from the test of the rewritten div on
HpcBody(h, child, pe, pt, te, is_root, is_last_of_root, has_tail, next_text) ==
    LET h1 == IF h[pe].tag = "div" /\ Strip(h[pe].text) # None
              THEN [h EXCEPT ![pe].tag = "p"] ELSE h
        kids == h[child].kids
    IN  IF element_is_empty(h, child) THEN R(h1, NULL)
        ELSE HpcEnd(HpcLoop(R(Done(h1, child), pe), kids, 1, pe, pt, te, is_root, has_tail),
                    pe, is_root, is_last_of_root \/ (kids = <<>> /\ is_root),
                    has_tail, next_text)

\* the graphic branch, after handle_image could select no src: the new
\* element is returned as it is
HpcNoImage(h, pe) == [h |-> h, r |-> pe, go |-> FALSE]

\* the graphic branch: processed_element is what handle_image made
HpcImage(im, pe) ==
    IF im.r = NULL THEN HpcNoImage(im.h, pe) ELSE [h |-> im.h, r |-> im.r, go |-> TRUE]

\* The start of handle_paragraphs_child, for a child that is no table: r is
\* processed_element, go whether the function goes on or returns r.
HpcElement(h, child, pt, te) ==
    LET tg == h[child].tag
        h0 == Append(h, [Node(tg) EXCEPT !.text = clean_element_text(h, child, FALSE),
                                         !.tail = clean_element_text(h, child, TRUE)])
        pe == Len(h) + 1
    IN  IF tg \in PChildTags
        THEN [h |-> [h0 EXCEPT ![pe].at = PChildAttrs(h, child),
                               ![pe].text = h[child].text, ![pe].tail = h[child].tail],
              r |-> pe, go |-> TRUE]
        ELSE IF tg = "graphic" /\ "graphic" \in pt THEN HpcImage(handle_image(h0, child), pe)
        ELSE IF tg \notin pt \cup te THEN [h |-> h0, r |-> NULL, go |-> FALSE]
        ELSE [h |-> h0, r |-> pe, go |-> TRUE]

\* handle_paragraphs_child from line 324 on
HpcGo(el, child, pt, te, is_root, is_last_of_root, has_tail, next_text) ==
    IF el.go
    THEN HpcBody(el.h, child, el.r, pt, te, is_root, is_last_of_root, has_tail, next_text)
    ELSE R(el.h, el.r)

handle_paragraphs_child(h, child, pt, te, is_root, is_last_of_root, has_tail, next_text) ==
    IF h[child].tag = "table"
    THEN handle_table(Append(h, Node("table")), child, pt, te)
    ELSE HpcGo(HpcElement(h, child, pt, te), child, pt, te, is_root, is_last_of_root,
               has_tail, next_text)

RECURSIVE TitleLoop(_, _, _, _)
\* for child in list(element), of handle_titles
TitleLoop(h, ks, k, title) ==
    IF k > Len(ks) THEN h
    ELSE LET pc == handle_textnode(h, ks[k], FALSE, FALSE)
             h1 == IF pc.r # NULL THEN AppendKid(pc.h, title, pc.r) ELSE pc.h
         IN  TitleLoop([h1 EXCEPT ![ks[k]].tag = "done"], ks, k + 1, title)

\* the title that handle_titles has made, or None
TitleEnd(t) == IF t.r # NULL /\ text_chars_test(t.h[t.r].text) THEN t ELSE R(t.h, NULL)

\* the title of an element with children: a copy, the cleaned children appended
TitleCopy(cp, ks) == R(TitleLoop(cp.h, ks, 1, cp.r), cp.r)

handle_titles(h, element) ==
    IF h[element].kids = <<>> THEN TitleEnd(process_node(h, element))
    ELSE TitleEnd(TitleCopy(CopyTree(h, element), h[element].kids))

\* processed_element.insert(0, formatting) with formatting None: a TypeError
InsertNone(h) == R(h, ERR)

\* handle_formatting after process_node
FormattingEnd(f, element, childless) ==
    LET parent == Parent(f.h, element)
        h1 == Append(f.h, Node("p"))
    IN  IF childless /\ f.r = NULL THEN R(f.h, NULL)
        ELSE IF parent = NULL \/ f.h[parent].tag \notin FORMATTING_PROTECTED
        THEN IF f.r = NULL THEN InsertNone(h1)
             ELSE R(AppendKid(h1, Len(h1), f.r), Len(h1))
        ELSE f

handle_formatting(h, element) ==
    FormattingEnd(process_node(h, element), element, h[element].kids = <<>>)

\* child.tag = 'done', after the child of a list has been appended
ListItem(ap, cur) == IF ap.r = ERR THEN ap ELSE R(Done(ap.h, cur), NULL)

RECURSIVE ListLoop(_, _, _, _, _, _)
\* for child in element.iter('item'), of handle_lists
ListLoop(st, top, cur, pe, pt, te) ==
    IF st.r = ERR \/ cur = NULL THEN st
    ELSE ListLoop(ListItem(Appended(handle_paragraphs_child(st.h, cur, pt, {}, TRUE, FALSE,
                                                            FALSE, None),
                                    pe, NULL, te), cur),
                  top, NextMatch(st.h, cur, top, {"item"}), pe, pt, te)

\* the end of handle_lists
ListEnd(lp, pe) ==
    IF lp.r = ERR THEN lp
    ELSE IF lp.h[pe].kids # <<>> /\ text_chars_test(text_content(lp.h, pe)) THEN R(lp.h, pe)
    ELSE R(lp.h, NULL)

\* handle_lists, its new element made
ListStart(h1, element, pe, pt, te) ==
    ListEnd(ListLoop(R(h1, NULL), element, FirstMatch(h1, element, {"item"}), pe, pt, te), pe)

handle_lists(h, element, pt, te) ==
    ListStart(Append(h, [Node(h[element].tag) EXCEPT !.text = h[element].text]),
              element, Len(h) + 1, pt, te)

\* one turn of the loop of handle_quotes
QuoteChild(pc, child, pe) ==
    Done(IF pc.r # NULL
         THEN SubElement(pc.h, pe, pc.h[child].tag, pc.h[pc.r].text, pc.h[pc.r].tail)
         ELSE pc.h, child)

RECURSIVE QuoteLoop(_, _, _, _)
\* for child in element.iter('*'), of handle_quotes
QuoteLoop(h, els, k, pe) ==
    IF k > Len(els) THEN h
    ELSE QuoteLoop(QuoteChild(process_node(h, els[k]), els[k], pe), els, k + 1, pe)

\* the end of handle_quotes
QuoteEnd(h2, pe) ==
    IF h2[pe].kids # <<>> /\ text_chars_test(text_content(h2, pe))
    THEN R(strip_tags(h2, pe, {"quote"}), pe)
    ELSE R(h2, NULL)

handle_quotes(h, element) ==
    QuoteEnd(QuoteLoop(Append(h, Node(h[element].tag)), Iter(h, element), 1, Len(h) + 1),
             Len(h) + 1)

\* the div branch of handle_other_elements, after handle_textnode
OtherEnd(pe) ==
    IF pe.r # NULL /\ text_chars_test(pe.h[pe.r].text)
    THEN R([pe.h EXCEPT ![pe.r].at = NoAttr, ![pe.r].tag = IF @ = "div" THEN "p" ELSE @], pe.r)
    ELSE R(pe.h, NULL)

handle_other_elements(h, element, pt) ==
    IF h[element].tag \notin pt THEN R(h, NULL)
    ELSE IF h[element].tag = "div" THEN OtherEnd(handle_textnode(h, element, FALSE, FALSE))
    ELSE R(h, NULL)

\* the end of handle_paragraphs: a trailing lb is removed
DropTrailingLb(h, pe) ==
    LET ks == h[pe].kids
    IN  IF h[ks[Len(ks)]].tag = "lb" THEN Detach(h, ks[Len(ks)]) ELSE h

\* handle_paragraphs after handle_paragraphs_child
ParagraphEnd(pe) ==
    IF pe.r = ERR \/ pe.r = NULL THEN pe
    ELSE IF pe.h[pe.r].kids # <<>> THEN R(DropTrailingLb(pe.h, pe.r), pe.r)
    ELSE IF pe.h[pe.r].text # None THEN pe
    ELSE R(pe.h, NULL)

\* handle_paragraphs, the attributes of the element cleared
ParagraphStart(h0, element, pt, te) ==
    IF h0[element].kids = <<>> THEN process_node(h0, element)
    ELSE ParagraphEnd(handle_paragraphs_child(h0, element, pt, te, TRUE, FALSE, FALSE, None))

handle_paragraphs(h, element, pt, te) ==
    ParagraphStart([h EXCEPT ![element].at = NoAttr], element, pt, te)

\* define_cell_type
define_cell_type(h, element) ==
    Append(h, [Node("cell") EXCEPT
                 !.at = IF h[element].tag = "th" THEN Put(NoAttr, "role", "head") ELSE NoAttr])

\* the child of a cell is cleaned or rewritten
CellChild(h, cur, pt, te) ==
    IF h[cur].tag \in TABLE_ALL
    THEN handle_textnode([h EXCEPT ![cur].tag = IF @ \in TABLE_ELEMS THEN "cell" ELSE @],
                         cur, TRUE, TRUE)
    ELSE handle_textelem(h, cur, pt \cup {"div"}, te)

\* etree.SubElement(newchildelem, processed_subchild.tag), and child.tag = 'done'
SubCell(ps, cur, cell) ==
    IF ps.r = ERR THEN ps
    ELSE R(Done(IF ps.r # NULL
                THEN SubElement(ps.h, cell, ps.h[ps.r].tag, ps.h[ps.r].text, ps.h[ps.r].tail)
                ELSE ps.h, cur), cell)

RECURSIVE CellLoop(_, _, _, _, _, _)
\* for child in subelement.iter('*'), of handle_table; st.r is the new cell
CellLoop(st, top, cur, cell, pt, te) ==
    IF st.r = ERR \/ cur = NULL THEN st
    ELSE CellLoop(SubCell(CellChild(st.h, cur, pt, te), cur, cell),
                  top, NextAny(st.h, cur, top), cell, pt, te)

\* the cell of a th or td without children, after process_node
CellText(pc, cell) ==
    IF pc.r # NULL
    THEN R([pc.h EXCEPT ![cell].text = pc.h[pc.r].text, ![cell].tail = pc.h[pc.r].tail], cell)
    ELSE R(pc.h, cell)

\* the th/td branch of handle_table, the new cell made; r is the new cell
TableCell(h1, subelement, cell, pt, te) ==
    IF h1[subelement].kids = <<>> THEN CellText(process_node(h1, subelement), cell)
    ELSE CellLoop(R(h1, cell), subelement, subelement, cell, pt, te)

\* newrow.append(newchildelem) and subelement.tag = 'done'; r is newrow
CellAdded(c, cur, newrow) ==
    IF c.r = ERR THEN c
    ELSE R(Done(IF c.h[c.r].text # None \/ c.h[c.r].kids # <<>>
                THEN AppendKid(c.h, newrow, c.r) ELSE c.h, cur), newrow)

\* the tr branch of handle_table; r is newrow
TableRow(h, cur, newtable, newrow) ==
    IF h[newrow].kids # <<>>
    THEN R(Done(Append(AppendKid(h, newtable, newrow), Node("row")), cur), Len(h) + 1)
    ELSE R(Done(h, cur), newrow)

\* one turn of the loop of handle_table; r is newrow
TableStep(h, cur, newtable, newrow, pt, te) ==
    IF h[cur].tag = "tr" THEN TableRow(h, cur, newtable, newrow)
    ELSE IF h[cur].tag \in TABLE_ELEMS
    THEN CellAdded(TableCell(define_cell_type(h, cur), cur, Len(h) + 1, pt, te), cur, newrow)
    ELSE R(Done(h, cur), newrow)

\* the end of handle_table
TableEnd(h, newtable, newrow) ==
    LET h1 == IF h[newrow].kids # <<>> THEN AppendKid(h, newtable, newrow) ELSE h
    IN  IF h1[newtable].kids # <<>> THEN R(h1, newtable) ELSE R(h1, NULL)

RECURSIVE TableLoop(_, _, _, _, _, _, _)
\* for subelement in table_elem.iter('*'), of handle_table; i counts the
\* elements seen before cur, st.r is newrow
TableLoop(st, top, cur, i, newtable, pt, te) ==
    IF st.r = ERR THEN st
    ELSE IF cur = NULL THEN TableEnd(st.h, newtable, st.r)
    ELSE IF st.h[cur].tag = "table" /\ i + 1 > 1 THEN TableEnd(st.h, newtable, st.r)
    ELSE TableLoop(TableStep(st.h, cur, newtable, st.r, pt, te),
                   top, NextAny(st.h, cur, top), i + 1, newtable, pt, te)

\* handle_table, newtable and newrow made
TableStart(h1, table_elem, newtable, newrow, pt, te) ==
    TableLoop(R(strip_tags(h1, table_elem, {"thead", "tbody", "tfoot"}), newrow),
              table_elem, table_elem, 0, newtable, pt, te)

handle_table(h, table_elem, pt, te) ==
    TableStart(Append(Append(h, Node("table")), Node("row")), table_elem,
               Len(h) + 1, Len(h) + 2, pt, te)

\* the new p of the lb branch
LbEnd(e) ==
    IF e.r # NULL THEN R(Append(e.h, [Node("p") EXCEPT !.text = e.h[e.r].tail]), Len(e.h) + 1)
    ELSE e

\* the lb branch of handle_textelem
handle_lb(h, element) ==
    IF text_chars_test(h[element].tail) THEN LbEnd(process_node(h, element)) ELSE R(h, NULL)

handle_textelem(h, element, pt, te) ==
    LET tg == h[element].tag
    IN  IF tg = "list" THEN handle_lists(h, element, pt, te)
        ELSE IF tg \in CODES_QUOTES THEN handle_quotes(h, element)
        ELSE IF tg = "head" THEN handle_titles(h, element)
        ELSE IF tg = "p" THEN handle_paragraphs(h, element, pt, te)
        ELSE IF tg = "lb" THEN handle_lb(h, element)
        ELSE IF tg \in FORMATTING THEN handle_formatting(h, element)
        ELSE IF tg = "table" /\ "table" \in pt THEN handle_table(h, element, pt, te)
        ELSE IF tg = "graphic" /\ "graphic" \in pt THEN handle_image(h, element)
        ELSE handle_other_elements(h, element, pt)

-----------------------------------------------------------------------------
(* Collaborators of extract_content: settings, path expressions, pruning *)

\* settings.TAG_CATALOG
TAG_CATALOG == {"blockquote", "code", "del", "head", "hi", "item", "lb", "list", "p",
                "pre", "quote"}

\* xpaths.BODY_XPATH, in its declared order: each expression is given by the
\* tag of the elements it selects, (.//article)[1] and (.//main)[1]
BODY_XPATH == <<"article", "main">>

\* xpaths.DISCARD_XPATH and DISCARD_IMAGE_ELEMENTS, by the tags they select
DiscardTags == {"nav"}
DiscardImageTags == {"figure", "picture", "source"}

\* tree.xpath(expr): the descendants of the tree that the expression selects
XPath(h, tree, expr) == SelectSeq(Descendants(h, tree), LAMBDA n : h[n].tag = expr)

\* htmlprocessing.prune_unwanted_nodes: the selected subtrees are removed
prune_unwanted_nodes(h, tree, tags) == strip_elements(h, tree, tags)

RECURSIVE SumLen(_, _, _)
SumLen(h, ns, i) ==
    IF i > Len(ns) THEN 0 ELSE Len(trim(text_content(h, ns[i]))) + SumLen(h, ns, i + 1)

Links(h, e) == SelectSeq(Descendants(h, e), LAMBDA n : h[n].tag = "ref")

\* the links of collect_link_info that carry text
TextLinks(h, e) == SelectSeq(Links(h, e), LAMBDA n : trim(text_content(h, n)) # None)

\* htmlprocessing.link_density_test, for elements shorter than its length
\* limits, whose links are all short: r is the verdict, list the link texts
link_density_test(h, e) ==
    LET links == TextLinks(h, e)
        elemlen == Len(trim(text_content(h, e)))
        linklen == SumLen(h, links, 1)
    IN  IF Links(h, e) = <<>> THEN [r |-> FALSE, list |-> <<>>]
        ELSE [r |-> \/ Len(links) = 0
                    \/ 10 * linklen > 8 * elemlen
                    \/ Len(links) > 1,
              list |-> links]

\* the text length above which link_density_test_tables looks at a table
TableLinkLimit == 250

\* htmlprocessing.link_density_test_tables
link_density_test_tables(h, e) ==
    LET links == TextLinks(h, e)
        elemlen == Len(trim(text_content(h, e)))
    IN  /\ Links(h, e) # <<>>
        /\ elemlen > TableLinkLimit
        /\ (Len(links) = 0 \/ 10 * SumLen(h, links, 1) > 8 * elemlen)

RECURSIVE Uniquify(_)
\* utils.uniquify_list: the first occurrence of each element, in order
Uniquify(s) ==
    IF s = <<>> THEN <<>>
    ELSE <<Head(s)>> \o Uniquify(SelectSeq(Tail(s), LAMBDA x : x # Head(s)))

RECURSIVE RemoveAll(_, _)
\* for elem in deletions: elem.getparent().remove(elem); an element without
\* a parent raises
RemoveAll(h, ds) ==
    IF ds = <<>> THEN R(h, NULL)
    ELSE IF Parent(h, Head(ds)) = NULL THEN R(h, ERR)
    ELSE RemoveAll(Detach(h, Head(ds)), Tail(ds))

delete_by_link_density(h, subtree, tagname, backtracking) ==
    LET elems == SelectSeq(Iter(h, subtree), LAMBDA n : h[n].tag = tagname)
        flagged == SelectSeq(elems, LAMBDA n : link_density_test(h, n).r)
        others == SelectSeq(elems, LAMBDA n : /\ ~link_density_test(h, n).r
                                               /\ link_density_test(h, n).list # <<>>)
        key(n) == trim(text_content(h, n))
        group(n) == SelectSeq(others, LAMBDA m : key(m) = key(n))
        repeated == SelectSeq(others, LAMBDA n : /\ 0 < Len(key(n))
                                                 /\ Len(key(n)) < 100
                                                 /\ Len(group(n)) >= 3)
    IN  RemoveAll(h, Uniquify(flagged \o (IF backtracking THEN repeated ELSE <<>>)))

RECURSIVE TablePrune(_, _, _)
\* for elem in subtree.iter('table'): the flagged tables are removed
TablePrune(h, top, cur) ==
    IF cur = NULL THEN R(h, NULL)
    ELSE LET nxt == NextMatch(h, cur, top, {"table"})
         IN  IF link_density_test_tables(h, cur)
             THEN IF Parent(h, cur) = NULL THEN R(h, ERR)
                  ELSE TablePrune(Detach(h, cur), top, nxt)
             ELSE TablePrune(h, top, nxt)

RECURSIVE PTextLen(_, _, _)
\* the length of ''.join(tree.xpath('//p//text()')): the text nodes inside p elements
PTextLen(h, n, inP) ==
    LET in1 == inP \/ h[n].tag = "p"
        kid(i) == h[n].kids[i]
        f[i \in 0..Len(h[n].kids)] ==
            IF i = 0 THEN 0
            ELSE f[i - 1] + PTextLen(h, kid(i), in1)
                 + (IF in1 THEN Len(h[kid(i)].tail) ELSE 0)
    IN  (IF in1 THEN Len(h[n].text) ELSE 0) + f[Len(h[n].kids)]

RECURSIVE Extend(_, _, _)
\* body.extend(elements)
Extend(h, body, es) ==
    IF es = <<>> THEN h ELSE Extend(AppendKid(h, body, Head(es)), body, Tail(es))

RECURSIVE DropTrailingTitles(_, _)
\* while len(result_body) > 0 and result_body[-1].tag in HEADINGS: remove it
DropTrailingTitles(h, body) ==
    LET ks == h[body].kids
    IN  IF ks # <<>> /\ h[ks[Len(ks)]].tag \in HEADINGS
        THEN DropTrailingTitles(Detach(h, ks[Len(ks)]), body)
        ELSE h

\* a list of elements with the result of one more call, unless it is None
Collected(res, acc) ==
    [h |-> res.h,
     r |-> IF res.r = ERR \/ res.r = NULL THEN acc ELSE Append(acc, res.r),
     raised |-> res.r = ERR]

RECURSIVE RewriteAll(_, _, _, _, _)
\* [handle_paragraphs_child(e, ...) for e in subtree]; st.r is the list of the
\* results that are not None, st.raised whether an exception ended the loop
RewriteAll(st, ks, i, pt, te) ==
    IF st.raised \/ i > Len(ks) THEN st
    ELSE RewriteAll(Collected(handle_paragraphs_child(st.h, ks[i], pt, te, TRUE, FALSE,
                                                      FALSE, None), st.r),
                    ks, i + 1, pt, te)

WildTags == {"blockquote", "code", "div", "p", "pre", "q", "quote", "table", "lb"}

RECURSIVE WildLoop(_, _, _, _, _)
\* [handle_textelem(element, ...) for element in search_tree.iter(...)]
WildLoop(st, top, cur, pt, te) ==
    IF st.raised \/ cur = NULL THEN st
    ELSE WildLoop(Collected(handle_textelem(st.h, cur, pt, te), st.r),
                  top, NextMatch(st.h, cur, top, WildTags), pt, te)

\* the tags recover_wild_text strips from the search tree
WildStripTags(pt) == IF "ref" \notin pt THEN {"a", "ref", "span"} ELSE {"span"}

\* result_body.extend(e for e in [...] if e is not None)
Extended(lp, body) ==
    IF lp.raised THEN R(lp.h, ERR) ELSE R(Extend(lp.h, body, lp.r), body)

\* the search tree of recover_wild_text
WildPruned(h, tree, pt) ==
    strip_tags(prune_unwanted_nodes(prune_unwanted_nodes(h, tree, DiscardTags), tree,
                                    IF "graphic" \notin pt THEN DiscardImageTags ELSE {}),
               tree, WildStripTags(pt))

\* recover_wild_text, its search tree pruned
WildSearch(h3, tree, result_body, pt, te) ==
    Extended(WildLoop([h |-> h3, r |-> <<>>, raised |-> FALSE], tree,
                      FirstMatch(h3, tree, WildTags), pt \cup {"div"}, te),
             result_body)

\* recover_wild_text; r is result_body, or ERR
recover_wild_text(h, tree, result_body, pt, te) ==
    WildSearch(WildPruned(h, tree, pt), tree, result_body, pt, te)

-----------------------------------------------------------------------------
(* extract_content *)

\* one call of delete_by_link_density after another
ThenDelete(d, subtree, tagname, wanted) ==
    IF d.r = ERR \/ ~wanted THEN d ELSE delete_by_link_density(d.h, subtree, tagname, FALSE)

\* the pruning of the tables of a candidate subtree
ThenTables(d, subtree, wanted) ==
    IF d.r = ERR \/ ~wanted THEN d
    ELSE TablePrune(d.h, subtree, FirstMatch(d.h, subtree, {"table"}))

\* the link-density pruning of a candidate subtree; r is NULL, or ERR
PruneByLinks(h, subtree, pt, favor_precision) ==
    ThenTables(
        ThenDelete(
            ThenDelete(
                ThenDelete(delete_by_link_density(h, subtree, "div", TRUE),
                           subtree, "list", TRUE),
                subtree, "p", TRUE),
            subtree, "head", favor_precision),
        subtree, "table" \in pt \/ favor_precision)

\* potential_tags after a test of the p text that permits the links as well
WithDivAndLinks(pt, ptlen, min) ==
    IF ptlen = 0 \/ ptlen < min * 2 THEN pt \cup {"div", "ref"} ELSE pt

\* potential_tags after the test of the p text of the document
WithDiv(pt, ptlen, min) == IF ptlen = 0 \/ ptlen < min * 2 THEN pt \cup {"div"} ELSE pt

\* the tags stripped from a candidate subtree, were ref always kept
CandidateKeepingRef(pt) == {t \in {"span"} : t \notin pt}

\* the tags stripped from a candidate subtree before it is rewritten
CandidateStripTags(pt) == {t \in {"ref", "span"} : t \notin pt}

\* the candidate subtree, discarded elements pruned
CandidatePruned(h, subtree, include_images) ==
    prune_unwanted_nodes(prune_unwanted_nodes(h, subtree, DiscardTags), subtree,
                         IF ~include_images THEN DiscardImageTags ELSE {})

\* the loop is left if the body has more than one child
CandidateWon(h4, body, pt1) ==
    [h |-> h4, r |-> NULL, pt |-> pt1, won |-> Len(h4[body].kids) > 1]

\* the end of a turn: the results extended to the body, trailing titles removed
CandidateEnd(rw, body, pt1) ==
    IF rw.raised THEN [h |-> rw.h, r |-> ERR, pt |-> pt1, won |-> FALSE]
    ELSE CandidateWon(DropTrailingTitles(Extend(rw.h, body, rw.r), body), body, pt1)

\* the children of the subtree rewritten
CandidateRewrite(h3, subtree, body, pt1, te) ==
    CandidateEnd(RewriteAll([h |-> h3, r |-> <<>>, raised |-> FALSE], h3[subtree].kids, 1,
                            pt1, te),
                 body, pt1)

\* the subtree stripped of the tags that are not kept
CandidateStrip(h, subtree, body, pt1, te) ==
    CandidateRewrite(strip_tags(h, subtree, CandidateStripTags(pt1)), subtree, body, pt1, te)

\* a turn from the test of the pruned subtree on
CandidatePtest(d, subtree, body, pt, te, min) ==
    IF d.r = ERR THEN [h |-> d.h, r |-> ERR, pt |-> pt, won |-> FALSE]
    ELSE IF d.h[subtree].kids = <<>> THEN [h |-> d.h, r |-> NULL, pt |-> pt, won |-> FALSE]
    ELSE CandidateStrip(d.h, subtree, body,
                        WithDiv(pt, PTextLen(d.h, Root(d.h, subtree), FALSE), min), te)

\* a selected subtree is pruned
CandidateOf(h, subtree, body, pt, te, o, min) ==
    CandidatePtest(PruneByLinks(CandidatePruned(h, subtree, o.include_images), subtree, pt,
                                o.favor_precision),
                   subtree, body, pt, te, min)

\* One turn of the loop over BODY_XPATH.  r is NULL or ERR, pt the potential
\* tags after the turn, won whether the loop is left.
Candidate(h, tree, body, pt, te, expr, o, min) ==
    IF XPath(h, tree, expr) = <<>> THEN [h |-> h, r |-> NULL, pt |-> pt, won |-> FALSE]
    ELSE CandidateOf(h, XPath(h, tree, expr)[1], body, pt, te, o, min)

\* the test with the length of the text left out
TooLittleEmptyOnly(h, body, min) == h[body].kids = <<>>

\* the test that sends extract_content to recover_wild_text
TooLittle(h, body, min) == h[body].kids = <<>> \/ Len(FlatText(h, body)) < min

\* the output filter without the removal of the done elements
FilterKeepingDone(h, body) == strip_tags(h, body, {"div"})

\* the output filter of extract_content
FilterBody(h, body) == strip_tags(strip_elements(h, body, {"done"}), body, {"div"})

-----------------------------------------------------------------------------
(* Documents *)

E(tag, text, kids) == [tag |-> tag, text |-> text, tail |-> None, at |-> NoAttr, kids |-> kids]
Et(tag, text, tail, kids) == [E(tag, text, kids) EXCEPT !.tail = tail]
Ea(tag, at) == [E(tag, None, <<>>) EXCEPT !.at = at]

RECURSIVE Build(_, _), BuildKids(_, _, _)
\* the heap with the tree of a term added; r is the root of the tree
Build(h, t) ==
    LET h1 == Append(h, [tag |-> t.tag, text |-> t.text, tail |-> t.tail, at |-> t.at,
                         kids |-> <<>>])
    IN  BuildKids(h1, Len(h1), t.kids)
BuildKids(h, n, ks) ==
    IF ks = <<>> THEN R(h, n)
    ELSE LET k == Build(h, Head(ks))
         IN  BuildKids([k.h EXCEPT ![n].kids = Append(@, k.r)], n, Tail(ks))

RECURSIVE Term(_, _), TermKids(_, _)
\* the tree of an element, as a term
Term(h, n) == [tag |-> h[n].tag, text |-> h[n].text, tail |-> h[n].tail, at |-> h[n].at,
               kids |-> TermKids(h, h[n].kids)]
TermKids(h, ks) == IF ks = <<>> THEN <<>> ELSE <<Term(h, Head(ks))>> \o TermKids(h, Tail(ks))

-----------------------------------------------------------------------------
(* compare_extraction and its collaborators *)

\* body.xpath('//p|quote//text()'): a p element of the tree of the body, or
\* a text node below a quote that is a child of the body
HasPQ(h, body) ==
    \/ \E i \in 1..Len(Iter(h, Root(h, body))) : h[Iter(h, Root(h, body))[i]].tag = "p"
    \/ \E i \in 1..Len(h[body].kids) :
          h[h[body].kids[i]].tag = "quote" /\ IterText(h, h[body].kids[i]) # <<>>

\* len(body.xpath('//tag'))
CountTag(h, body, tag) == Len(SelectSeq(Iter(h, Root(h, body)), LAMBDA n : h[n].tag = tag))

\* the bypass for recall
Bypassed(favor_recall, len_text, min) == favor_recall /\ len_text > min * 10

\* algo_flag with len_text > 2 * len_algo read as len_text >= 2 * len_algo
AlgoFlagOffByOne(h, body, len_text, len_algo, min) ==
    IF len_algo = 0 \/ len_algo = len_text THEN FALSE
    ELSE IF len_text = 0 /\ len_algo > 0 THEN TRUE
    ELSE IF len_text >= 2 * len_algo THEN FALSE
    ELSE IF len_algo > 2 * len_text THEN TRUE
    ELSE IF ~HasPQ(h, body) /\ len_algo > min * 2 THEN TRUE
    ELSE IF CountTag(h, body, "table") > CountTag(h, body, "p") /\ len_algo > min * 2
    THEN TRUE
    ELSE FALSE

\* algo_flag, as the conditions to use the alternative algorithm set it
AlgoFlag(h, body, len_text, len_algo, min) ==
    IF len_algo = 0 \/ len_algo = len_text THEN FALSE
    ELSE IF len_text = 0 /\ len_algo > 0 THEN TRUE
    ELSE IF len_text > 2 * len_algo THEN FALSE
    ELSE IF len_algo > 2 * len_text THEN TRUE
    ELSE IF ~HasPQ(h, body) /\ len_algo > min * 2 THEN TRUE
    ELSE IF CountTag(h, body, "table") > CountTag(h, body, "p") /\ len_algo > min * 2
    THEN TRUE
    ELSE FALSE

\* xpaths.SANITIZED_XPATH, by the tags it selects
SanitizedTags == {"aside", "figure"}

\* body.xpath(SANITIZED_XPATH)
Sanitized(h, body) ==
    \E i \in 1..Len(Iter(h, Root(h, body))) : h[Iter(h, Root(h, body))[i]].tag \in SanitizedTags

\* external.justext_rescue, given what try_justext has found (NULL for
\* nothing): the body found replaces the body passed if its text is longer
justext_rescue(h, found, body, len_text, text) ==
    IF found # NULL /\ Len(FlatText(h, found)) > len_text
    THEN [body |-> found, text |-> FlatText(h, found), len |-> Len(FlatText(h, found)),
          ok |-> TRUE]
    ELSE [body |-> body, text |-> text, len |-> len_text, ok |-> FALSE]

\* the first rescue, adopting any successful result
RescueSanitizedAnyLength(jt, body, text, len_text) ==
    IF jt.ok THEN jt
    ELSE [body |-> body, text |-> text, len |-> len_text, ok |-> jt.ok]

\* the first rescue: the chosen body holds a sanitized signature
RescueSanitized(jt, body, text, len_text) ==
    IF jt.ok /\ ~(len_text > 2 * jt.len) THEN jt
    ELSE [body |-> body, text |-> text, len |-> len_text, ok |-> jt.ok]

\* which rescue compare_extraction runs after the choice
RescueCase(h, body, len_text, favor_recall, min) ==
    IF Sanitized(h, body) /\ len_text < min * 10 THEN "sanitized"
    ELSE IF len_text < min \/ favor_recall THEN "justext"
    ELSE "none"

\* the tags external.sanitize_tree strips, and the elements it removes
SanitizeStrip(o) ==
    (IF o.include_formatting THEN {} ELSE {"hi"}) \cup (IF o.include_links THEN {} ELSE {"ref"})
SanitizeRemove(o) ==
    (IF o.include_images THEN {} ELSE {"graphic"})
        \cup (IF o.include_tables THEN {} ELSE {"table"})

\* external.sanitize_tree: the heap after it
sanitize_tree(h, body, o) ==
    strip_tags(strip_elements(h, body, SanitizeRemove(o)), body, SanitizeStrip(o))

-----------------------------------------------------------------------------
(* extract_comments *)

\* xpaths.COMMENTS_XPATH, in its declared order: each expression is given by
\* the class of the elements it selects
COMMENTS_XPATH == <<"comment-list", "comments">>

\* xpaths.COMMENTS_DISCARD_XPATH and REMOVE_COMMENTS_XPATH, by what they select
CommentsDiscardTags == {"form"}
RemoveCommentsClasses == {"comment-list", "comments"}

\* tree.xpath(expr) for an expression that selects by class
XPathClass(h, tree, cls) ==
    SelectSeq(Descendants(h, tree), LAMBDA n : Get(h[n].at, "class") = cls)

\* processed_element.attrib.clear(); return processed_element
CommentCleared(res) ==
    IF res.r = NULL THEN res ELSE R([res.h EXCEPT ![res.r].at = NoAttr], res.r)

process_comments_node(h, elem, pt) ==
    IF h[elem].tag \in pt THEN CommentCleared(handle_textnode(h, elem, TRUE, FALSE))
    ELSE R(h, NULL)

\* comments_body.extend(...) takes one processed element after another
CommentAdded(res, body) == IF res.r = NULL THEN res.h ELSE AppendKid(res.h, body, res.r)

RECURSIVE CommentsLoop(_, _, _, _, _)
CommentsLoop(h, els, i, body, pt) ==
    IF i > Len(els) THEN h
    ELSE CommentsLoop(CommentAdded(process_comments_node(h, els[i], pt), body),
                      els, i + 1, body, pt)

\* the elements of subtree.xpath('.//*'), a list made before the loop
CommentsScan(h1, subtree, body, pt) ==
    CommentsLoop(h1, Descendants(h1, subtree), 1, body, pt)

\* one subtree: pruned, stripped, processed
CommentsIn(h, subtree, body, pt) ==
    CommentsScan(strip_tags(prune_unwanted_nodes(h, subtree, CommentsDiscardTags), subtree,
                            {"a", "ref", "span"}),
                 subtree, body, pt)

RECURSIVE CommentsTry(_, _, _, _, _)
\* if len(comments_body) > 0: remove the subtree and leave the loop
CommentsFound(h2, tree, subtree, body, pt, k) ==
    IF h2[body].kids # <<>> THEN Detach(h2, subtree)
    ELSE CommentsTry(h2, tree, body, pt, k + 1)

\* for expr in COMMENTS_XPATH, from the k-th expression on
CommentsTry(h, tree, body, pt, k) ==
    IF k > Len(COMMENTS_XPATH) THEN h
    ELSE IF XPathClass(h, tree, COMMENTS_XPATH[k]) = <<>>
    THEN CommentsTry(h, tree, body, pt, k + 1)
    ELSE CommentsFound(CommentsIn(h, XPathClass(h, tree, COMMENTS_XPATH[k])[1], body, pt),
                       tree, XPathClass(h, tree, COMMENTS_XPATH[k])[1], body, pt, k)

\* extract_comments: the heap after it and comments_body
extract_comments(h, tree) ==
    R(CommentsTry(Append(h, Node("body")), tree, Len(h) + 1, TAG_CATALOG, 1), Len(h) + 1)

\* prune_unwanted_nodes(cleaned_tree, REMOVE_COMMENTS_XPATH)
RemoveComments(h, tree) ==
    RemoveAll(h, SelectSeq(Descendants(h, tree),
                           LAMBDA n : Get(h[n].at, "class") \in RemoveCommentsClasses)).h

-----------------------------------------------------------------------------
(* baseline *)

\* '"article', '"articlebody":"' and '","'
ArticleKey == <<"\"", "a", "r", "t", "i", "c", "l", "e">>
BodyKey == ArticleKey \o <<"b", "o", "d", "y", "\"", ":", "\"">>
Closing == <<"\"", ",", "\"">>

StartsAt(s, i, pat) == i + Len(pat) - 1 <= Len(s) /\ SubSeq(s, i, i + Len(pat) - 1) = pat

Contains(s, pat) == \E i \in 1..Len(s) : StartsAt(s, i, pat)

\* re.I, over the letters of the documents
LowerChar(c) == IF c = "B" THEN "b" ELSE IF c = "A" THEN "a" ELSE c
Lower(s) == [i \in 1..Len(s) |-> LowerChar(s[i])]

Min(S) == CHOOSE x \in S : \A y \in S : x <= y

\* where a group (.+?) that starts at a can end: before the next '","'
GroupEnds(s, a) == {e \in a..Len(s) : StartsAt(s, e + 1, Closing)}

\* where re.search(r'"articlebody":"(.+?)","', s, re.I) can match
KeyStarts(s) ==
    {i \in 1..Len(s) : StartsAt(Lower(s), i, BodyKey) /\ GroupEnds(s, i + Len(BodyKey)) # {}}

\* mymatch.group(1): leftmost match, shortest group
ArticleBody(s) ==
    SubSeq(s, Min(KeyStarts(s)) + Len(BodyKey),
           Min(GroupEnds(s, Min(KeyStarts(s)) + Len(BodyKey))))

RECURSIVE Unescape(_)
\* .replace('\\"', '"')
Unescape(s) ==
    IF Len(s) < 2 THEN s
    ELSE IF s[1] = "\\" /\ s[2] = "\"" THEN <<"\"">> \o Unescape(SubSeq(s, 3, Len(s)))
    ELSE <<s[1]>> \o Unescape(Tail(s))

\* tree.iterfind('.//script[@type="application/ld+json"]')
JsonScripts(h, tree) ==
    SelectSeq(Descendants(h, tree),
              LAMBDA n : h[n].tag = "script" /\ Get(h[n].at, "type") = "application/ld+json")

\* the scripts at which the loop returns
JsonHits(h, tree) ==
    SelectSeq(JsonScripts(h, tree),
              LAMBDA n : /\ h[n].text # None
                         /\ Contains(h[n].text, ArticleKey)
                         /\ KeyStarts(h[n].text) # {})

\* a new body with one paragraph of the text; returns body, text, length
BaselineOne(h, text) ==
    [h |-> Append(Append(h, [Node("body") EXCEPT !.kids = <<Len(h) + 2>>]),
                  [Node("p") EXCEPT !.text = text]),
     body |-> Len(h) + 1, text |-> text, len |-> Len(text)]

RECURSIVE BaselineParas(_, _, _, _, _)
\* one p for each entry that is not in results
BaselineParas(h, body, els, i, results) ==
    IF i > Len(els) THEN h
    ELSE IF text_content(h, els[i]) \in results
    THEN BaselineParas(h, body, els, i + 1, results)
    ELSE BaselineParas(SubElement(h, body, "p", text_content(h, els[i]), None), body, els,
                       i + 1, results \cup {text_content(h, els[i])})

BaselineTags == {"blockquote", "code", "p", "pre", "q", "quote"}

\* the third source; '\n'.join and trim leave one space between two texts
BaselineText(h, body) ==
    [h |-> h, body |-> body, text |-> FlatText(h, body), len |-> Len(FlatText(h, body))]

BaselineScrape(h, tree, body) ==
    BaselineText(BaselineParas(h, body,
                               SelectSeq(Iter(h, tree), LAMBDA n : h[n].tag \in BaselineTags),
                               1, {}),
                 body)

\* baseline of a document that load_html has parsed; ld.r is its tree
BaselineOf(ld) ==
    IF JsonHits(ld.h, ld.r) # <<>>
    THEN BaselineOne(ld.h, trim(Unescape(ArticleBody(ld.h[JsonHits(ld.h, ld.r)[1]].text))))
    ELSE IF /\ XPath(ld.h, ld.r, "article") # <<>>
            /\ trim(text_content(ld.h, XPath(ld.h, ld.r, "article")[1])) # None
    THEN BaselineOne(ld.h, trim(text_content(ld.h, XPath(ld.h, ld.r, "article")[1])))
    ELSE BaselineScrape(Append(ld.h, Node("body")), ld.r, Len(ld.h) + 1)

\* utils.load_html: the tree of the document, None for what does not parse;
\* filecontent is the sequence of the page, empty for what does not parse
load_html(h, filecontent) ==
    IF filecontent = <<>> THEN R(h, NULL) ELSE Build(h, filecontent[1])

\* a value that baseline returns, with its Python type
PyStr(s) == [type |-> "str", val |-> s]
PyInt(n) == [type |-> "int", val |-> n]

\* the body, the text and its length, as returned after the tree was scraped
BaselineReturn(bl) ==
    [h |-> bl.h, body |-> bl.body, text |-> PyStr(bl.text), len |-> PyInt(bl.len)]

\* baseline: the heap, and the three values in the order of the return
\* statement; for a document that does not parse it is postbody, 0, ''
baseline(h, filecontent) ==
    IF filecontent = <<>>
    THEN [h |-> Append(h, Node("body")), body |-> Len(h) + 1, text |-> PyInt(0),
          len |-> PyStr(None)]
    ELSE BaselineReturn(BaselineOf(load_html(h, filecontent)))

-----------------------------------------------------------------------------
(* bare_extraction's collaborators *)

\* body.xpath('//figure|//source|//picture') with no child
LoneFigures(h, body) ==
    SelectSeq(Iter(h, Root(h, body)),
              LAMBDA n : h[n].tag \in {"figure", "source", "picture"} /\ h[n].kids = <<>>)

remove_lone_figures(h, body) == RemoveAll(h, LoneFigures(h, body)).h

\* htmlprocessing.tree_cleaning: the elements it removes and the tags it strips
CleanedTags(include_tables, include_images) ==
    {"script", "style", "form"}
        \cup (IF include_tables THEN {} ELSE {"table", "td", "th", "tr"})
        \cup (IF include_images THEN {} ELSE {"figure", "picture", "source"})

tree_cleaning(h, tree, include_tables, include_images) ==
    strip_tags(strip_elements(h, tree, CleanedTags(include_tables, include_images)), tree,
               IF include_images THEN {} ELSE {"img"})

\* htmlprocessing.convert_tags: the tag of the internal vocabulary
ConvertedTag(tag) ==
    CASE tag \in {"b", "strong", "i", "em"} -> "hi"
      [] tag \in {"h1", "h2"} -> "head"
      [] tag = "a" -> "ref"
      [] tag \in {"ul", "ol"} -> "list"
      [] tag = "li" -> "item"
      [] tag = "img" -> "graphic"
      [] tag = "br" -> "lb"
      [] tag = "blockquote" -> "quote"
      [] OTHER -> tag

\* the tags convert_tags strips for the flags that are off
SuppressedTags(o) ==
    (IF o.include_links THEN {} ELSE {"a"})
        \cup (IF o.include_formatting THEN {} ELSE {"b", "strong", "i", "em"})

RECURSIVE Renamed(_, _, _)
Renamed(h, els, i) ==
    IF i > Len(els) THEN h
    ELSE Renamed([h EXCEPT ![els[i]].tag = ConvertedTag(@)], els, i + 1)

\* the elements that are left are renamed
ConvertRest(h1, tree) == Renamed(h1, Descendants(h1, tree), 1)

convert_tags(h, tree, o) == ConvertRest(strip_tags(h, tree, SuppressedTags(o)), tree)

\* utils.check_html_lang: the lang attribute of the document, if it has one
check_html_lang(h, tree, target_language) ==
    Get(h[tree].at, "lang") \in {"", target_language}

\* xml.xmltotxt: the texts of the body, one after another
xmltotxt(h, body) == FlatText(h, body)

-----------------------------------------------------------------------------
(* The inputs *)

\* texts
Ta == <<"a">>
Tab == <<"a", "b">>
Tcd == <<"c", "d">>
Tdot == <<".">>
Tbad == <<"#">>

Src(v) == [k \in {"src"} |-> v]
Alt(v) == [k \in {"alt"} |-> v]

\* the blocks a candidate subtree is made of
Blocks ==
    { E("p", Tab, <<>>),
      E("p", Ta, <<Et("hi", <<"b">>, Tdot, <<>>)>>),
      E("p", Ta, <<E("ref", <<"r">>, <<>>)>>),
      E("p", None, <<E("ref", Tcd, <<>>)>>),
      E("p", Ta, <<Ea("graphic", Alt("x")), E("lb", None, <<>>)>>),
      Ea("graphic", Src("//c/i.jpg")),
      Ea("graphic", Alt("x")),
      E("section", None, <<E("p", Tcd, <<>>)>>),
      E("figure", None, <<Ea("graphic", Src("i.jpg"))>>),
      E("table", None, <<E("tr", None, <<E("td", Ta, <<E("hi", <<"b">>, <<>>)>>)>>)>>),
      E("table", None, <<E("tr", None, <<E("th", <<"h">>, <<>>)>>),
                         E("tr", None, <<E("td", <<"c">>, <<>>)>>)>>),
      E("table", None, <<E("tr", None,
           <<E("td", None, <<E("ref", Tbad, <<E("hi", <<"b">>, <<>>)>>)>>)>>)>>),
      E("table", None, <<E("tr", None,
           <<E("td", None, <<E("head", <<"t">>, <<E("hi", <<"u">>, <<>>)>>)>>)>>)>>),
      E("head", <<"t">>, <<>>),
      E("ref", <<"r", "s">>, <<>>),
      E("div", <<"x">>, <<E("p", <<"y">>, <<E("hi", <<"z">>, <<>>)>>)>>),
      E("div", None, <<E("p", Tab, <<>>)>>),
      E("div", None, <<E("head", <<"t">>, <<>>)>>),
      E("quote", <<"q">>, <<E("p", <<"u">>, <<>>)>>),
      E("list", None, <<E("item", <<"o">>, <<>>), E("item", <<"t">>, <<>>)>>),
      Et("lb", None, <<"w">>, <<>>),
      E("nav", None, <<E("p", <<"n">>, <<>>)>>) }

\* the blocks that follow the first one
TailBlocks == { E("p", <<"e", "f", "g">>, <<>>), E("head", <<"t">>, <<>>) }

\* at most this many blocks follow the first block of a container
MaxTail == 1

RECURSIVE SeqsUpTo(_, _)
SeqsUpTo(S, n) ==
    IF n = 0 THEN {<<>>}
    ELSE SeqsUpTo(S, n - 1) \cup {Append(s, x) : s \in SeqsUpTo(S, n - 1), x \in S}

Tails == SeqsUpTo(TailBlocks, MaxTail)

\* the paragraphs outside of every container: of a text, of a line break
WildBlocks == { E("p", <<"e", "f", "g">>, <<>>), E("p", None, <<E("lb", None, <<>>)>>) }

\* the documents: one container, or an article of one block before a main,
\* or before a paragraph outside of every container
Docs ==
    {E("html", None, <<E(c, None, <<b>> \o t)>>) :
        c \in {"article", "main", "div"}, b \in Blocks, t \in Tails}
    \cup {E("html", None, <<E("article", None, <<b>>), E("main", None, t)>>) :
        b \in Blocks, t \in Tails \ {<<>>}}
    \cup {E("html", None, <<E("article", None, <<b>>), w>>) :
        b \in Blocks, w \in WildBlocks}

-----------------------------------------------------------------------------
(* The state *)

VARIABLES
    pc,                 \* where the call stands
    call,               \* the function that was called
    filecontent,        \* the document, with what the collaborators find in it
    opt,                \* the options of the call
    config,             \* the thresholds of the configuration
    heap,               \* the elements
    tree,               \* the tree of the document: cleaned and converted in place
    backup_tree,
    docmeta,
    commentsbody,
    temp_comments,
    len_comments,
    raw_tree,           \* raw_tree of extract_content
    result_body,        \* result_body of extract_content
    potential_tags,
    tags_to_enumerate,
    expr_i,             \* the index in BODY_XPATH of the next expression
    sure_thing,
    postbody,           \* body of compare_extraction, postbody of bare_extraction
    temp_text,
    len_text,
    algo_body,          \* temppost_algo
    algo_flag,
    jt_result,
    tagname,            \* the tag that the link-density pruning is at
    cur,                \* elem of the loop over subtree.iter(tagname)
    myelems,            \* the elements kept for backtracking
    deletions,
    result              \* what the call has returned or raised

inputVars == <<call, filecontent, opt, config>>
pruneVars == <<tagname, cur, myelems, deletions>>
loadVars == <<tree, backup_tree, docmeta>>
commentVars == <<commentsbody, temp_comments, len_comments>>
contentVars == <<raw_tree, result_body, potential_tags, tags_to_enumerate, expr_i,
                 sure_thing>>
textVars == <<postbody, temp_text, len_text>>
compareVars == <<algo_body, algo_flag, jt_result>>

vars == <<pc, heap, result, inputVars, loadVars, commentVars, contentVars, textVars,
          compareVars, pruneVars>>

Pending == [kind |-> "pending"]
Absent == [kind |-> "absent"]
Raised(type) == [kind |-> "exception", type |-> type]

\* the default values of the parameters of bare_extraction; an optional
\* parameter is the set of its value, empty for None
Defaults ==
    [no_fallback |-> FALSE, favor_precision |-> FALSE, favor_recall |-> FALSE,
     include_comments |-> TRUE, output_format |-> "python", target_language |-> {},
     include_tables |-> TRUE, include_images |-> FALSE, include_formatting |-> FALSE,
     include_links |-> FALSE, deduplicate |-> FALSE, only_with_metadata |-> FALSE,
     with_metadata |-> FALSE, max_tree_size |-> {}, url_blacklist |-> {}]

\* the defaults with the values of o for the parameters that o names
Options(o) == [k \in DOMAIN Defaults |-> IF k \in DOMAIN o THEN o[k] ELSE Defaults[k]]

\* dict.fromkeys(METADATA_LIST): "" stands for None
NoMeta == [url |-> "", date |-> "", title |-> ""]

\* the values of MIN_EXTRACTED_SIZE tried
MinSizes == {1, 3}

Thresholds(mes, mos, mocs) ==
    [MIN_EXTRACTED_SIZE |-> mes, MIN_OUTPUT_SIZE |-> mos, MIN_OUTPUT_COMM_SIZE |-> mocs,
     MIN_EXTRACTED_COMM_SIZE |-> 1]

ContentOptions ==
    [favor_precision : BOOLEAN, favor_recall : BOOLEAN, include_tables : BOOLEAN,
     include_images : BOOLEAN, include_links : BOOLEAN]

\* the variables that a call sets before it reads them
Fresh ==
    /\ backup_tree = NULL
    /\ docmeta = NoMeta
    /\ commentsbody = NULL
    /\ temp_comments = None
    /\ len_comments = 0
    /\ raw_tree = NULL
    /\ result_body = NULL
    /\ potential_tags = {}
    /\ tags_to_enumerate = {}
    /\ expr_i = 1
    /\ sure_thing = FALSE
    /\ algo_body = NULL
    /\ algo_flag = FALSE
    /\ jt_result = FALSE
    /\ tagname = ""
    /\ cur = NULL
    /\ myelems = <<>>
    /\ deletions = <<>>
    /\ result = Pending

\* extract_content is called on a document
InitContent ==
    \E d \in Docs, o \in ContentOptions, m \in MinSizes :
        /\ pc = "extract_content"
        /\ call = "extract_content"
        /\ filecontent = [html |-> <<>>, meta |-> NoMeta, duplicate |-> FALSE,
                          language |-> "en"]
        /\ opt = Options(o)
        /\ config = Thresholds(m, 1, 1)
        /\ heap = Build(<<>>, d).h
        /\ tree = 1
        /\ postbody = NULL
        /\ temp_text = None
        /\ len_text = 0
        /\ Fresh

\* extract_content, up to the loop
StartContent ==
    /\ pc = "extract_content"
    /\ pc' = "candidates"
    /\ raw_tree' = IF raw_tree = NULL THEN tree ELSE raw_tree
    /\ heap' = Append(heap, Node("body"))
    /\ result_body' = Len(heap) + 1
    /\ potential_tags' = TAG_CATALOG
            \cup (IF opt.include_tables THEN {"table", "td", "th", "tr"} ELSE {})
            \cup (IF opt.include_images THEN {"graphic"} ELSE {})
            \cup (IF opt.include_links THEN {"ref"} ELSE {})
    /\ tags_to_enumerate' = {"article", "main", "section", "header"}
            \cup (IF opt.include_images THEN {"figure", "picture", "source"} ELSE {})
    /\ expr_i' = 1
    /\ sure_thing' = FALSE
    /\ UNCHANGED <<result, inputVars, pruneVars, loadVars, commentVars, textVars, compareVars>>

\* one expression of BODY_XPATH
TryCandidate ==
    /\ pc = "candidates"
    /\ expr_i <= Len(BODY_XPATH)
    /\ \E c \in {Candidate(heap, tree, result_body, potential_tags, tags_to_enumerate,
                          BODY_XPATH[expr_i], opt, config.MIN_EXTRACTED_SIZE)} :
           /\ heap' = c.h
           /\ potential_tags' = c.pt
           /\ pc' = IF c.r = ERR THEN "raised"
                    ELSE IF c.won \/ expr_i = Len(BODY_XPATH) THEN "selected"
                    ELSE "candidates"
           /\ result' = IF c.r = ERR THEN Raised("TypeError") ELSE result
           /\ expr_i' = IF c.r = ERR \/ c.won THEN expr_i ELSE expr_i + 1
    /\ UNCHANGED <<raw_tree, result_body, tags_to_enumerate, sure_thing>>
    /\ UNCHANGED <<inputVars, pruneVars, loadVars, commentVars, textVars, compareVars>>

\* too little was found: recover_wild_text
RecoverWild ==
    /\ pc = "selected"
    /\ TooLittle(heap, result_body, config.MIN_EXTRACTED_SIZE)
    /\ \E w \in {recover_wild_text(heap, raw_tree, result_body,
                                    IF opt.favor_recall THEN potential_tags \cup {"div"}
                                    ELSE potential_tags, tags_to_enumerate)} :
           /\ heap' = w.h
           /\ potential_tags' = potential_tags \cup {"div"}
           /\ pc' = IF w.r = ERR THEN "raised" ELSE "filter"
           /\ result' = IF w.r = ERR THEN Raised("TypeError") ELSE result
           /\ temp_text' = IF w.r = ERR THEN temp_text ELSE FlatText(w.h, result_body)
    /\ UNCHANGED <<raw_tree, result_body, tags_to_enumerate, expr_i, sure_thing>>
    /\ UNCHANGED <<postbody, len_text, inputVars, pruneVars, loadVars, commentVars, compareVars>>

\* enough was found
SureThing ==
    /\ pc = "selected"
    /\ ~TooLittle(heap, result_body, config.MIN_EXTRACTED_SIZE)
    /\ temp_text' = FlatText(heap, result_body)
    /\ sure_thing' = TRUE
    /\ pc' = "filter"
    /\ UNCHANGED <<raw_tree, result_body, potential_tags, tags_to_enumerate, expr_i>>
    /\ UNCHANGED <<heap, result, postbody, len_text, inputVars, pruneVars, loadVars, commentVars,
                   compareVars>>

\* the output is filtered and returned
FilterOutput ==
    /\ pc = "filter"
    /\ heap' = FilterBody(heap, result_body)
    /\ len_text' = Len(temp_text)
    /\ pc' = "extracted"
    /\ UNCHANGED <<result, postbody, temp_text, inputVars, pruneVars, loadVars, commentVars,
                   contentVars, compareVars>>

NextContent == StartContent \/ TryCandidate \/ RecoverWild \/ SureThing \/ FilterOutput

SpecContent == InitContent /\ [][NextContent]_vars

-----------------------------------------------------------------------------
(* compare_extraction *)

\* the longest text of a body that is drawn
MaxTextLen == 12

\* a text of n characters
X(n) == [i \in 1..n |-> "x"]

Cell(n) == E("table", None, <<E("row", None, <<E("cell", X(n), <<>>)>>)>>)

\* the custom bodies with a text of n characters: empty, of a paragraph, of
\* a table, of two tables and a paragraph, of a quote, of a figure and a
\* paragraph, of an inline element
CustomBodies(n) ==
    (IF n = 0 THEN {E("body", None, <<>>)} ELSE {})
    \cup (IF n >= 5
          THEN {E("body", None, <<Cell(1), Cell(1), E("p", X(n - 4), <<>>)>>)}
          ELSE {})
    \cup {E("body", None, <<E("p", X(n), <<>>)>>),
          E("body", None, <<Cell(n)>>),
          E("body", None, <<E("quote", X(n), <<>>)>>),
          E("body", None, <<E("figure", None, <<>>), E("p", X(n), <<>>)>>),
          E("body", None, <<E("hi", X(n), <<>>)>>)}

\* the lengths of the texts that the generic extractors are taken to find
AlgoLens == IF call = "compare_extraction" THEN 0..MaxTextLen ELSE {0, MaxTextLen}

\* what external.try_readability can return: a body, empty or of a paragraph,
\* of a paragraph with an inline element, of a figure and a paragraph
AlgoBodies ==
    {E("body", None, IF n = 0 THEN <<>> ELSE <<E("p", X(n), <<>>)>>) : n \in AlgoLens}
    \cup {E("body", None, <<E("p", None, <<E("hi", X(n), <<>>)>>)>>) : n \in AlgoLens \ {0}}
    \cup {E("body", None, <<E("figure", None, <<>>), E("p", X(n), <<>>)>>) : n \in AlgoLens}

\* what external.try_justext can find: nothing, or a body of a paragraph
JustextBodies ==
    {<<>>} \cup {<<E("body", None, <<E("p", X(n), <<>>)>>)>> : n \in AlgoLens \ {0}}

\* compare_extraction is called on a custom body
InitCompare ==
    \E n \in 0..MaxTextLen, fr \in BOOLEAN, m \in MinSizes :
        \E b \in CustomBodies(n) :
            /\ pc = "compare"
            /\ call = "compare_extraction"
            /\ filecontent = [html |-> <<>>, meta |-> NoMeta, duplicate |-> FALSE,
                              language |-> "en"]
            /\ opt = Options([favor_recall |-> fr])
            /\ config = Thresholds(m, 1, 1)
            /\ heap = Build(<<>>, b).h
            /\ tree = NULL
            /\ postbody = 1
            /\ temp_text = FlatText(Build(<<>>, b).h, 1)
            /\ len_text = Len(FlatText(Build(<<>>, b).h, 1))
            /\ Fresh

\* the bypass for recall
Bypass ==
    /\ pc = "compare"
    /\ Bypassed(opt.favor_recall, len_text, config.MIN_EXTRACTED_SIZE)
    /\ pc' = "compared"
    /\ UNCHANGED <<heap, result, inputVars, pruneVars, loadVars, commentVars, contentVars, textVars,
                   compareVars>>

\* try with readability
TryReadability ==
    /\ pc = "compare"
    /\ ~Bypassed(opt.favor_recall, len_text, config.MIN_EXTRACTED_SIZE)
    /\ \E b \in AlgoBodies : \E bl \in {Build(heap, b)} :
           /\ heap' = bl.h
           /\ algo_body' = bl.r
    /\ algo_flag' = FALSE
    /\ jt_result' = FALSE
    /\ pc' = "readability"
    /\ UNCHANGED <<result, inputVars, pruneVars, loadVars, commentVars, contentVars, textVars>>

\* the conditions to use the alternative algorithm, and the decision applied
Choose ==
    /\ pc = "readability"
    /\ \E f \in {AlgoFlag(heap, postbody, len_text, Len(FlatText(heap, algo_body)),
                          config.MIN_EXTRACTED_SIZE)} :
           /\ algo_flag' = f
           /\ postbody' = IF f THEN algo_body ELSE postbody
           /\ temp_text' = IF f THEN FlatText(heap, algo_body) ELSE temp_text
           /\ len_text' = IF f THEN Len(FlatText(heap, algo_body)) ELSE len_text
    /\ pc' = "chosen"
    /\ UNCHANGED <<heap, result, algo_body, jt_result, inputVars, pruneVars, loadVars, commentVars,
                   contentVars>>

\* what the rescue leaves: body, text, len and jt_result (ok)
RescueResult(h, found, body, text, len, case) ==
    CASE case = "sanitized" ->
            RescueSanitized(justext_rescue(h, found, body, 0, None), body, text, len)
      [] case = "justext" -> justext_rescue(h, found, body, len, text)
      [] OTHER -> [body |-> body, text |-> text, len |-> len, ok |-> FALSE]

\* override a faulty extraction, or try with justext; the position after it
\* tells whether justext_rescue was called ("justext") or not ("rescued")
Rescue ==
    /\ pc = "chosen"
    /\ \E fs \in JustextBodies :
         \E case \in {RescueCase(heap, postbody, len_text, opt.favor_recall,
                                 config.MIN_EXTRACTED_SIZE)} :
           /\ case = "none" => fs = <<>>
           /\ \E bl \in {IF fs = <<>> THEN R(heap, NULL) ELSE Build(heap, fs[1])} :
                \E rr \in {RescueResult(bl.h, bl.r, postbody, temp_text, len_text, case)} :
                   /\ heap' = bl.h
                   /\ postbody' = rr.body
                   /\ temp_text' = rr.text
                   /\ len_text' = rr.len
                   /\ jt_result' = rr.ok
                   /\ pc' = IF case = "none" THEN "rescued" ELSE "justext"
    /\ UNCHANGED <<result, algo_body, algo_flag, inputVars, pruneVars, loadVars, commentVars,
                   contentVars>>

\* post-processing: remove unwanted sections
Sanitize ==
    /\ pc \in {"rescued", "justext"}
    /\ \E h1 \in {IF algo_flag /\ ~jt_result THEN sanitize_tree(heap, postbody, opt)
                  ELSE heap} :
           /\ heap' = h1
           /\ temp_text' = IF algo_flag /\ ~jt_result THEN FlatText(h1, postbody)
                           ELSE temp_text
           /\ len_text' = IF algo_flag /\ ~jt_result THEN Len(FlatText(h1, postbody))
                          ELSE len_text
    /\ pc' = "compared"
    /\ UNCHANGED <<result, postbody, inputVars, pruneVars, loadVars, commentVars, contentVars,
                   compareVars>>

NextCompare == Bypass \/ TryReadability \/ Choose \/ Rescue \/ Sanitize

SpecCompare == InitCompare /\ [][NextCompare]_vars

-----------------------------------------------------------------------------
(* bare_extraction and extract *)

Eac(tag, at, text, kids) == [E(tag, text, kids) EXCEPT !.at = at]

Html(kids) == E("html", None, <<E("body", None, kids)>>)

Tlong == <<"a", "b", "c", "d", "e", "f", "g">>
Tefg == <<"e", "f", "g">>
Tnice == <<"N", "i", "c", "e">>

\* {"articleBody":"ab","k":1}
Tjson == <<"{", "\"", "a", "r", "t", "i", "c", "l", "e", "B", "o", "d", "y", "\"", ":",
           "\"", "a", "b", "\"", ",", "\"", "k", "\"", ":", "1", "}">>

Class(v) == [k \in {"class"} |-> v]

\* the pages: an article of two paragraphs; with formatting and a heading;
\* with a table whose cell holds a share link around a line break; with a
\* comments section; a lone short paragraph; a JSON-LD script; figures; an
\* empty page; a main with a list; a short paragraph before a comment list;
\* a paragraph followed by formatting outside of a paragraph
Pages ==
    { Html(<<E("article", None, <<E("p", Tlong, <<>>), E("p", Tefg, <<>>)>>)>>),
      Html(<<E("article", None, <<E("p", Tab, <<>>), E("b", Tcd, <<>>)>>)>>),
      Html(<<E("article", None, <<E("p", Tab, <<E("b", <<"c">>, <<>>)>>),
                                  E("h2", <<"t">>, <<>>), E("p", Tefg, <<>>)>>)>>),
      Html(<<E("article", None,
               <<E("table", None, <<E("tr", None,
                    <<E("td", None, <<E("a", Tbad, <<E("br", None, <<>>)>>)>>)>>)>>),
                 E("p", Tlong, <<>>)>>)>>),
      Html(<<E("article", None, <<E("p", Tab, <<>>), E("p", Tcd, <<>>)>>),
             Eac("section", Class("comments"), None,
                 <<E("div", None, <<E("p", Tnice, <<>>)>>)>>)>>),
      Html(<<E("div", None, <<E("p", <<"x", "y">>, <<>>)>>)>>),
      Html(<<Eac("script", [k \in {"type"} |-> "application/ld+json"], Tjson, <<>>),
             E("div", None, <<>>)>>),
      Html(<<E("article", None, <<E("figure", None, <<Ea("img", Src("i.jpg"))>>),
                                  E("figure", None, <<>>), E("p", Tlong, <<>>)>>)>>),
      Html(<<>>),
      Html(<<E("main", None, <<E("p", Tab, <<>>),
                               E("ul", None, <<E("li", <<"o">>, <<>>),
                                               E("li", <<"t">>, <<>>)>>)>>)>>),
      Html(<<E("p", <<"x">>, <<>>),
             Eac("div", Class("comment-list"), None, <<E("p", Tnice, <<>>)>>)>>) }

\* what metadata.extract_metadata finds: "" stands for None
FullMeta == [url |-> "u", date |-> "d", title |-> "t"]
Metas == {FullMeta, [FullMeta EXCEPT !.url = "bad"], [FullMeta EXCEPT !.date = ""]}

Page1 == Html(<<E("article", None, <<E("p", Tlong, <<>>), E("p", Tefg, <<>>)>>)>>)

\* the documents: html is None for what does not parse; duplicate is what
\* duplicate_test finds, language the language that language_filter detects
Documents ==
    {[html |-> <<p>>, meta |-> FullMeta, duplicate |-> FALSE, language |-> "en"] : p \in Pages}
    \cup {[html |-> <<Page1>>, meta |-> m, duplicate |-> FALSE, language |-> "en"] :
             m \in Metas}
    \cup {[html |-> <<>>, meta |-> FullMeta, duplicate |-> FALSE, language |-> "en"],
          [html |-> <<Page1>>, meta |-> FullMeta, duplicate |-> TRUE, language |-> "en"],
          [html |-> <<Page1>>, meta |-> FullMeta, duplicate |-> FALSE, language |-> "de"],
          [html |-> <<[Page1 EXCEPT !.at = [k \in {"lang"} |-> "de"]]>>, meta |-> FullMeta,
           duplicate |-> FALSE, language |-> "en"]}

\* the values a parameter can take instead of its default
Changes ==
    {<<k, ~Defaults[k]>> :
        k \in {"no_fallback", "favor_precision", "favor_recall", "include_comments",
               "include_tables", "include_images", "include_formatting", "include_links",
               "deduplicate", "only_with_metadata", "with_metadata"}}
    \cup {<<"output_format", f>> : f \in {"txt", "csv", "json", "xml", "xmltei", "python"}}
    \cup {<<"target_language", {"en"}>>, <<"max_tree_size", {1}>>,
          <<"url_blacklist", {"bad"}>>}

\* the calls tried: at most two parameters are not at their default
Profiles == {[[Defaults EXCEPT ![a[1]] = a[2]] EXCEPT ![b[1]] = b[2]] :
                a \in Changes, b \in Changes}

Configs == {Thresholds(1, 1, 1), Thresholds(3, 5, 1), Thresholds(3, 5, 5)}

\* bare_extraction or extract is called on a document; extract takes the
\* formats of its documentation
Init ==
    \E d \in Documents, o \in Profiles, c \in Configs,
       f \in {"bare_extraction", "extract"} :
        /\ f = "extract" => o.output_format # "python"
        /\ pc = "bare_extraction"
        /\ call = f
        /\ filecontent = d
        /\ opt = o
        /\ config = c
        /\ heap = <<>>
        /\ tree = NULL
        /\ postbody = NULL
        /\ temp_text = None
        /\ len_text = 0
        /\ Fresh

\* except ValueError: return None
Reject ==
    /\ pc' = "absent"
    /\ result' = Absent

\* load data: the tree, the HTML lang check, the backup
Load ==
    /\ pc = "bare_extraction"
    /\ opt' = IF opt.with_metadata THEN [opt EXCEPT !.only_with_metadata = TRUE] ELSE opt
    /\ \E ld \in {load_html(heap, filecontent.html)} :
         IF ld.r = NULL
         THEN Reject /\ UNCHANGED <<heap, tree, backup_tree>>
         ELSE IF \E l \in opt.target_language : ~check_html_lang(ld.h, ld.r, l)
         THEN Reject /\ heap' = ld.h /\ tree' = ld.r /\ UNCHANGED backup_tree
         ELSE \E cp \in {IF opt.no_fallback THEN ld ELSE CopyTree(ld.h, ld.r)} :
                /\ heap' = cp.h
                /\ tree' = ld.r
                /\ backup_tree' = IF opt.no_fallback THEN NULL ELSE cp.r
                /\ pc' = "metadata"
                /\ UNCHANGED result
    /\ UNCHANGED <<call, filecontent, config, docmeta, commentVars, contentVars, textVars,
                   compareVars, pruneVars>>

\* a piece of the essential metadata is missing
Incomplete(meta) == meta.date = "" \/ meta.title = "" \/ meta.url = ""

\* the checks that follow extract_metadata
MetaRejected(meta, o) ==
    meta.url \in o.url_blacklist \/ (o.only_with_metadata /\ Incomplete(meta))

\* extract metadata if necessary
Metadata ==
    /\ pc = "metadata"
    /\ IF opt.output_format # "txt"
       THEN /\ docmeta' = filecontent.meta
            /\ IF MetaRejected(filecontent.meta, opt) THEN Reject
               ELSE pc' = "cleaning" /\ UNCHANGED result
       ELSE /\ docmeta' = NoMeta
            /\ pc' = "cleaning"
            /\ UNCHANGED result
    /\ UNCHANGED <<heap, tree, backup_tree, inputVars, pruneVars, commentVars, contentVars, textVars,
                   compareVars>>

\* tree_cleaning, then convert_tags
Clean ==
    /\ pc = "cleaning"
    /\ heap' = convert_tags(tree_cleaning(heap, tree, opt.include_tables,
                                           opt.include_images), tree, opt)
    /\ pc' = "comments"
    /\ UNCHANGED <<result, inputVars, pruneVars, loadVars, commentVars, contentVars, textVars,
                   compareVars>>

\* comments first, then remove
Comments ==
    /\ pc = "comments"
    /\ IF opt.include_comments
       THEN \E ec \in {extract_comments(heap, tree)} :
               /\ heap' = ec.h
               /\ commentsbody' = ec.r
               /\ temp_comments' = FlatText(ec.h, ec.r)
               /\ len_comments' = Len(FlatText(ec.h, ec.r))
       ELSE /\ heap' = IF opt.favor_precision THEN RemoveComments(heap, tree) ELSE heap
            /\ commentsbody' = NULL
            /\ temp_comments' = None
            /\ len_comments' = 0
    /\ pc' = "extract_content"
    /\ UNCHANGED <<result, inputVars, pruneVars, loadVars, contentVars, textVars, compareVars>>

\* extract_content has returned: remove lone figures
RemoveLoneFigures ==
    /\ pc = "extracted"
    /\ call \in {"bare_extraction", "extract"}
    /\ heap' = IF opt.include_images THEN remove_lone_figures(heap, result_body) ELSE heap
    /\ postbody' = result_body
    /\ pc' = IF opt.no_fallback THEN "rescue" ELSE "compare"
    /\ UNCHANGED <<result, temp_text, len_text, inputVars, pruneVars, loadVars, commentVars,
                   contentVars, compareVars>>

\* the body, the text and the length that baseline returns
Baselined ==
    \E bl \in {baseline(heap, filecontent.html)} :
        /\ heap' = bl.h
        /\ postbody' = bl.body
        /\ temp_text' = bl.text.val
        /\ len_text' = bl.len.val

\* compare_extraction has returned: add baseline as additional fallback
AddBaseline ==
    /\ pc = "compared"
    /\ call \in {"bare_extraction", "extract"}
    /\ IF heap[postbody].kids = <<>> THEN Baselined ELSE UNCHANGED <<heap, textVars>>
    /\ pc' = "tree_size"
    /\ UNCHANGED <<result, inputVars, pruneVars, loadVars, commentVars, contentVars, compareVars>>

\* no fallback: the rescue with baseline
RescueBaseline ==
    /\ pc = "rescue"
    /\ IF ~sure_thing /\ len_text < config.MIN_EXTRACTED_SIZE THEN Baselined
       ELSE UNCHANGED <<heap, textVars>>
    /\ pc' = "tree_size"
    /\ UNCHANGED <<result, inputVars, pruneVars, loadVars, commentVars, contentVars, compareVars>>

\* the tree size check that rejects on the count before the tags are stripped
TreeSizeBeforeStrip ==
    /\ pc = "tree_size"
    /\ heap' = IF \E n \in opt.max_tree_size : Len(heap[postbody].kids) > n
               THEN strip_tags(heap, postbody, {"hi"}) ELSE heap
    /\ IF \E n \in opt.max_tree_size : Len(heap[postbody].kids) > n THEN Reject
       ELSE pc' = "sizes" /\ UNCHANGED result
    /\ UNCHANGED <<inputVars, pruneVars, loadVars, commentVars, contentVars, textVars, compareVars>>

\* the tree size check without the stripping of the tags
TreeSizeKeepingTags ==
    /\ pc = "tree_size"
    /\ heap' = heap
    /\ IF \E n \in opt.max_tree_size : Len(heap[postbody].kids) > n THEN Reject
       ELSE pc' = "sizes" /\ UNCHANGED result
    /\ UNCHANGED <<inputVars, pruneVars, loadVars, commentVars, contentVars, textVars, compareVars>>

\* tree size sanity check
TreeSize ==
    /\ pc = "tree_size"
    /\ \E h1 \in {IF \E n \in opt.max_tree_size : Len(heap[postbody].kids) > n
                  THEN strip_tags(heap, postbody, {"hi"}) ELSE heap} :
         /\ heap' = h1
         /\ IF \E n \in opt.max_tree_size : Len(h1[postbody].kids) > n THEN Reject
            ELSE pc' = "sizes" /\ UNCHANGED result
    /\ UNCHANGED <<inputVars, pruneVars, loadVars, commentVars, contentVars, textVars, compareVars>>

\* the size check with either length too small rejecting
TooSmallEither(ltext, lcomments, c) ==
    ltext < c.MIN_OUTPUT_SIZE \/ lcomments < c.MIN_OUTPUT_COMM_SIZE

\* the size check that rejects
TooSmall(ltext, lcomments, c) ==
    ltext < c.MIN_OUTPUT_SIZE /\ lcomments < c.MIN_OUTPUT_COMM_SIZE

\* size checks
SizeChecks ==
    /\ pc = "sizes"
    /\ IF TooSmall(len_text, len_comments, config) THEN Reject
       ELSE pc' = "last_checks" /\ UNCHANGED result
    /\ UNCHANGED <<heap, inputVars, pruneVars, loadVars, commentVars, contentVars, textVars,
                   compareVars>>

\* check duplicates at body level, sanity check on language
LastChecks ==
    /\ pc = "last_checks"
    /\ IF opt.deduplicate /\ filecontent.duplicate THEN Reject
       ELSE IF \E l \in opt.target_language : filecontent.language # l THEN Reject
       ELSE pc' = "output" /\ UNCHANGED result
    /\ UNCHANGED <<heap, inputVars, pruneVars, loadVars, commentVars, contentVars, textVars,
                   compareVars>>

\* the document that bare_extraction returns
Return ==
    /\ pc = "output"
    /\ docmeta' =
         IF opt.output_format = "python"
         THEN IF opt.include_comments
              THEN Put(Put(docmeta, "text", xmltotxt(heap, postbody)),
                       "comments", xmltotxt(heap, commentsbody))
              ELSE Put(docmeta, "text", xmltotxt(heap, postbody))
         ELSE Put(Put(Put(docmeta, "raw-text", temp_text), "body", postbody),
                  "commentsbody", commentsbody)
    /\ result' = [kind |-> "document"]
    /\ pc' = "returned"
    /\ UNCHANGED <<heap, tree, backup_tree, inputVars, pruneVars, commentVars, contentVars, textVars,
                   compareVars>>

\* determine_returnstring, last cleaning: the elements of the body that are
\* not a graphic and have no child, no text and no tail leave their parent
LastCleaning(h, body) ==
    RemoveAll(h, SelectSeq(Iter(h, body),
                           LAMBDA n : /\ h[n].tag # "graphic"
                                      /\ h[n].kids = <<>>
                                      /\ h[n].text = None
                                      /\ h[n].tail = None
                                      /\ Parent(h, n) # NULL)).h

\* determine_returnstring: the texts that the string is made of
Returnstring(h, d, format) ==
    [format |-> format,
     body |-> IF format \in {"xml", "xmltei"} THEN <<Term(h, d.body)>>
              ELSE xmltotxt(h, d.body),
     comments |-> IF format \in {"txt", "csv"} /\ d.commentsbody # NULL
                  THEN xmltotxt(h, d.commentsbody) ELSE None]

\* extract, after bare_extraction has returned
Extract ==
    /\ call = "extract"
    /\ pc \in {"returned", "absent"}
    /\ pc' = "done"
    /\ IF pc = "absent" THEN UNCHANGED <<heap, docmeta, result>>
       ELSE \E h1 \in {IF opt.output_format \in {"xml", "xmltei"}
                       THEN LastCleaning(heap, docmeta.body) ELSE heap} :
              /\ heap' = h1
              /\ docmeta' = IF opt.output_format # "txt"
                            THEN Put(Put(docmeta, "id", ""), "fingerprint",
                                     docmeta["raw-text"])
                            ELSE docmeta
              /\ result' = [kind |-> "string",
                            value |-> Returnstring(h1, docmeta, opt.output_format)]
    /\ UNCHANGED <<tree, backup_tree, inputVars, pruneVars, commentVars, contentVars, textVars,
                   compareVars>>

Next ==
    \/ Load \/ Metadata \/ Clean \/ Comments
    \/ StartContent \/ TryCandidate \/ RecoverWild \/ SureThing \/ FilterOutput
    \/ RemoveLoneFigures
    \/ Bypass \/ TryReadability \/ Choose \/ Rescue \/ Sanitize
    \/ AddBaseline \/ RescueBaseline
    \/ TreeSize \/ SizeChecks \/ LastChecks \/ Return \/ Extract

Spec == Init /\ [][Next]_vars

-----------------------------------------------------------------------------
(* baseline, called on a document *)

\* {"articleBody":"ab"} and {"k":1}
Tonly == <<"{", "\"", "a", "r", "t", "i", "c", "l", "e", "B", "o", "d", "y", "\"", ":",
           "\"", "a", "b", "\"", "}">>
Tnokey == <<"{", "\"", "k", "\"", ":", "1", "}">>

JsonScript(t) == Eac("script", [k \in {"type"} |-> "application/ld+json"], t, <<>>)

\* at most this many paragraphs and quotes are in a page
MaxParas == 2

\* the pages: a JSON-LD script or none, an article or none, paragraphs and
\* quotes
BaselinePages ==
    {Html(j \o a \o ps) :
        j \in {<<>>, <<JsonScript(Tjson)>>, <<JsonScript(Tonly)>>, <<JsonScript(Tnokey)>>},
        a \in {<<>>, <<E("article", Tcd, <<>>)>>, <<E("article", None, <<>>)>>,
               <<E("article", None, <<E("p", Tefg, <<>>)>>)>>},
        ps \in SeqsUpTo({E("p", Tab, <<>>), E("quote", <<"q">>, <<>>), E("p", None, <<>>)},
                        MaxParas)}

\* baseline is called on a page, or on what the HTML loader cannot parse
InitBaseline ==
    \E page \in {<<pg>> : pg \in BaselinePages} \cup {<<>>} :
        /\ pc = "baseline"
        /\ call = "baseline"
        /\ filecontent = [html |-> page, meta |-> NoMeta, duplicate |-> FALSE,
                          language |-> "en"]
        /\ opt = Defaults
        /\ config = Thresholds(1, 1, 1)
        /\ heap = <<>>
        /\ tree = NULL
        /\ postbody = NULL
        /\ temp_text = None
        /\ len_text = 0
        /\ Fresh

\* baseline returns its three values
CallBaseline ==
    /\ pc = "baseline"
    /\ call = "baseline"
    /\ \E bl \in {baseline(heap, filecontent.html)} :
          /\ heap' = bl.h
          /\ postbody' = bl.body
          /\ result' = [kind |-> "triple", text |-> bl.text, len |-> bl.len]
    /\ pc' = "baselined"
    /\ UNCHANGED <<temp_text, len_text, inputVars, pruneVars, loadVars, commentVars, contentVars,
                   compareVars>>

NextBaseline == CallBaseline

SpecBaseline == InitBaseline /\ [][NextBaseline]_vars

-----------------------------------------------------------------------------
(* The choice of compare_extraction *)

\* the decision table: its rows from top to bottom, the first row that
\* matches decides
TableChoice(fr, L1, L2, min, nopq, moretab) ==
    CASE fr /\ L1 > 10 * min -> "custom"
      [] ~(fr /\ L1 > 10 * min) /\ L2 \in {0, L1} -> "custom"
      [] ~(fr /\ L1 > 10 * min) /\ L2 \notin {0, L1} /\ L1 = 0 -> "readability"
      [] ~(fr /\ L1 > 10 * min) /\ L2 \notin {0, L1} /\ L1 # 0 /\ L1 > 2 * L2 -> "custom"
      [] ~(fr /\ L1 > 10 * min) /\ L2 \notin {0, L1} /\ L1 # 0 /\ L1 <= 2 * L2
            /\ L2 > 2 * L1 -> "readability"
      [] OTHER -> IF L2 > 2 * min /\ (nopq \/ moretab) THEN "readability" ELSE "custom"

\* the row of the table for the state before the choice
TableSays ==
    TableChoice(opt.favor_recall, len_text,
                IF algo_body = NULL THEN 0 ELSE Len(FlatText(heap, algo_body)),
                config.MIN_EXTRACTED_SIZE, ~HasPQ(heap, postbody),
                CountTag(heap, postbody, "table") > CountTag(heap, postbody, "p"))

\* C1: compare_extraction chooses between the custom body and the body of
\* readability as the decision table says, the first matching row deciding:
\* it returns the custom body at once exactly when favor_recall holds and
\* L1 > 10 * MIN, and otherwise it takes the body, the text and the length of
\* readability exactly when the table's row says readability.
C1_DecisionTable ==
    [][/\ (pc = "compare" /\ pc' # "compare") =>
              /\ pc' = "compared" <=> (opt.favor_recall
                                         /\ len_text > 10 * config.MIN_EXTRACTED_SIZE)
              /\ pc' = "compared" => (TableSays = "custom" /\ UNCHANGED textVars)
       /\ (pc = "readability" /\ pc' = "chosen") =>
              IF TableSays = "readability"
              THEN /\ postbody' = algo_body
                   /\ temp_text' = FlatText(heap, algo_body)
                   /\ len_text' = Len(FlatText(heap, algo_body))
              ELSE UNCHANGED textVars]_vars

\* readability has been chosen in a borderline case: neither text is more
\* than twice as long as the other
C1_Witness ==
    /\ pc = "chosen"
    /\ postbody = algo_body
    /\ Len(FlatText(heap, 1)) > 0
    /\ Len(FlatText(heap, 1)) <= 2 * len_text
    /\ len_text <= 2 * Len(FlatText(heap, 1))

-----------------------------------------------------------------------------
(* What bare_extraction and extract return *)

\* the call has ended
Over ==
    IF call = "extract" THEN pc \in {"done", "raised"}
    ELSE pc \in {"returned", "absent", "raised"}

\* C8: no call of bare_extraction or extract ends in an exception: every
\* call ends with a document or with the absent result.
C8_NoException == result.kind # "exception"

\* the extracted URL of the document is in the blacklist, or the essential
\* metadata is asked for and a piece of it is missing
Unwanted ==
    \/ filecontent.meta.url \in opt.url_blacklist
    \/ opt.only_with_metadata /\ \E k \in {"date", "title", "url"} : filecontent.meta[k] = ""

\* C9: for every output format, the call returns the absent result when
\* the extracted URL of the document is in url_blacklist, and when
\* only_with_metadata is set and the date, the title or the URL is missing.
C9_MetadataFilter == (Over /\ Unwanted) => result.kind = "absent"

\* C10: the size checks reject a document exactly when its text is shorter
\* than MIN_OUTPUT_SIZE and the text of its comments is shorter than
\* MIN_OUTPUT_COMM_SIZE; a document that bare_extraction returns has one
\* of the two lengths at its threshold or above, and the length of the
\* comments is 0 when include_comments is false.
C10_SizeCheck ==
    [][/\ pc = "sizes" =>
            (pc' = "absent" <=> (/\ len_text < config.MIN_OUTPUT_SIZE
                                 /\ len_comments < config.MIN_OUTPUT_COMM_SIZE))
       /\ pc' = "returned" =>
            /\ len_text' >= config.MIN_OUTPUT_SIZE
                  \/ len_comments' >= config.MIN_OUTPUT_COMM_SIZE
            /\ ~opt.include_comments => len_comments' = 0]_vars

\* a document is returned for its comments: its text is too short
C10_Witness ==
    /\ pc = "returned"
    /\ result.kind = "document"
    /\ len_text < config.MIN_OUTPUT_SIZE
    /\ len_comments >= config.MIN_OUTPUT_COMM_SIZE

-----------------------------------------------------------------------------
(* The body that extract_content returns *)

\* extract_content has returned
Returned == pc = "extracted"

\* the elements of the body, the body itself included
InBody == {Iter(heap, result_body)[i] : i \in 1..Len(Iter(heap, result_body))}

\* the elements of the heap with a tag
Tagged(tag) == {e \in 1..Len(heap) : heap[e].tag = tag}

\* the tag of the parent of an element of the body
ParentTag(e) == IF Parent(heap, e) = NULL THEN "" ELSE heap[Parent(heap, e)].tag

\* a string without its spaces
Squeeze(s) == SelectSeq(s, LAMBDA c : c # SP)

\* the tags of the internal vocabulary, and the root
Vocabulary == {"body", "p", "head", "hi", "ref", "list", "item", "table", "row", "cell",
               "quote", "code", "graphic", "lb", "del", "fw"}

\* C2: every graphic element of the body that extract_content returns has
\* a src attribute that is not empty.
C2_GraphicHasSrc ==
    Returned => \A e \in InBody : heap[e].tag = "graphic" => Get(heap[e].at, "src") # ""

\* C3: in the body that extract_content returns, the parent of every cell
\* is a row, the parent of every row is a table and the parent of every
\* item is a list.
C3_Nesting ==
    Returned => \A e \in InBody :
        /\ heap[e].tag = "cell" => ParentTag(e) = "row"
        /\ heap[e].tag = "row" => ParentTag(e) = "table"
        /\ heap[e].tag = "item" => ParentTag(e) = "list"

\* C4: every element of the body that extract_content returns has a tag
\* of the internal vocabulary; an enumerable container is never emitted.
C4_Vocabulary == Returned => \A e \in InBody : heap[e].tag \in Vocabulary

\* C5: no element of the body that extract_content returns is tagged done.
C5_NoDone == Returned => \A e \in InBody : heap[e].tag # "done"

\* extract_content has returned a body with a child, and an element tagged
\* done that the output filter has removed from it is left without a parent
C5_Witness ==
    /\ Returned
    /\ heap[result_body].kids # <<>>
    /\ \E e \in Tagged("done") : e # tree /\ e # raw_tree /\ Parent(heap, e) = NULL

\* C6: when include_links is false, no ref element is in the body that
\* extract_content returns.
C6_NoRef == (Returned /\ ~opt.include_links) => \A e \in InBody : heap[e].tag # "ref"

\* extract_content has returned a body with a child, links excluded, for a
\* document that held a ref
C6_Witness ==
    /\ Returned
    /\ ~opt.include_links
    /\ heap[result_body].kids # <<>>
    /\ Tagged("ref") # {}

\* C7: the text that extract_content returns is the flattening, in document
\* order, of the text and tail fields of the elements of the body it
\* returns, white space aside, and the length is the length of that text.
C7_TextOfBody ==
    Returned => /\ Squeeze(temp_text) = Squeeze(text_content(heap, result_body))
                /\ len_text = Len(temp_text)

-----------------------------------------------------------------------------
(* The checks of bare_extraction on the size of the tree *)

\* the body has more direct children than max_tree_size allows
TooLong(h) == \E n \in opt.max_tree_size : Len(h[postbody].kids) > n

\* C11: with max_tree_size set, a body with too many direct children has its
\* hi elements stripped and is counted again; the call is rejected at this
\* check exactly when the count after stripping is still too high, a body
\* that is not too long is left as it is, and the body of a returned
\* document has at most max_tree_size direct children; with max_tree_size
\* not set nothing is rejected here
C11_TreeSize ==
    [][ /\ pc = "tree_size" =>
             /\ pc' = "absent" <=> TooLong(heap')
             /\ pc' # "absent" => pc' = "sizes"
             /\ TooLong(heap) => \A k \in 1..Len(Descendants(heap', postbody)) :
                                    heap'[Descendants(heap', postbody)[k]].tag # "hi"
             /\ ~TooLong(heap) => heap' = heap
        /\ (pc' \in {"returned", "done"} /\ result'.kind # "absent") => ~TooLong(heap')
      ]_vars

\* a call that keeps formatting and sets max_tree_size has returned the body
\* of extract_content, which is within the limit and holds no hi any more,
\* the hi elements with their text having left the tree
C11_Witness ==
    /\ pc = "returned"
    /\ opt.max_tree_size # {}
    /\ opt.include_formatting
    /\ postbody = result_body
    /\ heap[postbody].kids # <<>>
    /\ ~TooLong(heap)
    /\ \A k \in 1..Len(Descendants(heap, postbody)) :
          heap[Descendants(heap, postbody)[k]].tag # "hi"
    /\ \E e \in 1..Len(heap) : /\ heap[e].tag = "hi"
                               /\ heap[e].text # None
                               /\ Parent(heap, e) = NULL
-----------------------------------------------------------------------------
(* The loop of extract_content over the body path expressions *)

\* the expressions are tried one after the other in their declared order, and
\* the loop is left exactly at the first one after which the body has more
\* than one child, or after the last one
InDeclaredOrder ==
    (pc = "candidates" /\ pc' # "raised") =>
        /\ expr_i' \in {expr_i, expr_i + 1}
        /\ pc' = "selected" <=> (\/ Len(heap'[result_body].kids) > 1
                                 \/ expr_i = Len(BODY_XPATH))
        /\ pc' # "selected" => (pc' = "candidates" /\ expr_i' = expr_i + 1)

\* what the body holds when an expression wins was put there in the turn of
\* that expression
OnlyTheWinner ==
    (pc = "candidates" /\ pc' = "selected" /\ Len(heap'[result_body].kids) > 1) =>
        heap[result_body].kids = <<>>

\* C12: the body path expressions are evaluated in their declared order, the
\* loop stops at the first expression after which the result body has more
\* than one child, and the body then holds only elements rewritten from the
\* subtree of that expression, nothing from an earlier expression
C12_FirstWinner == [][InDeclaredOrder /\ OnlyTheWinner]_vars
\* the last child of the body is a heading
EndsOnHeading(h, body) ==
    /\ h[body].kids # <<>>
    /\ h[h[body].kids[Len(h[body].kids)]].tag \in HEADINGS

\* C13: the body that extract_content returns never has a heading (head or
\* fw) as its last child, whether it comes from a candidate expression or
\* from the recovery of wild text, and after the final filter
C13_NoTrailingHeading == Returned => ~EndsOnHeading(heap, result_body)
-----------------------------------------------------------------------------
(* The recovery of wild text *)

\* after the loop the body has no children or its text is shorter than
\* MIN_EXTRACTED_SIZE
NothingSure ==
    \/ heap[result_body].kids = <<>>
    \/ Len(FlatText(heap, result_body)) < config.MIN_EXTRACTED_SIZE

\* C14: after the loop over the candidates, wild text is recovered exactly
\* when the body has no children or its text is shorter than
\* MIN_EXTRACTED_SIZE; sure_thing is true exactly when it was not recovered;
\* and the recovery only appends to the body, whose children of before stay
\* where they are
C14_Recovery ==
    [][ pc = "selected" =>
          /\ pc' = "filter" => sure_thing' = ~NothingSure
          /\ pc' # "filter" => (pc' = "raised" /\ NothingSure)
          /\ ~NothingSure => (heap' = heap /\ potential_tags' = potential_tags)
          /\ NothingSure =>
                /\ "div" \in potential_tags'
                /\ Len(heap'[result_body].kids) >= Len(heap[result_body].kids)
                /\ SubSeq(heap'[result_body].kids, 1, Len(heap[result_body].kids))
                      = heap[result_body].kids
      ]_vars

\* wild text was recovered after the candidates had given too little: the
\* first child of the body is a paragraph without children that the rewriter
\* made after the body from the child of an article, which is done, and the
\* last child is an element of the tree, moved to the body by the recovery
C14_Witness ==
    /\ pc = "filter"
    /\ ~sure_thing
    /\ Len(heap[result_body].kids) >= 2
    /\ heap[result_body].kids[1] > result_body
    /\ heap[heap[result_body].kids[1]].tag = "p"
    /\ heap[heap[result_body].kids[1]].kids = <<>>
    /\ heap[result_body].kids[Len(heap[result_body].kids)] < result_body
    /\ \E a \in Tagged("article") : /\ heap[a].kids # <<>>
                                    /\ heap[heap[a].kids[1]].tag = "done"
-----------------------------------------------------------------------------
(* The fallbacks of bare_extraction *)

\* the steps of compare_extraction
InArbiter == {"compare", "readability", "chosen", "rescued", "justext", "compared"}

\* C15: with no_fallback set, bare_extraction never calls compare_extraction
\* and keeps no backup of the tree; with or without it, baseline is run
\* exactly when the body has no children after the stage before, so that a
\* body with children is never replaced by the one of baseline
C15_Fallbacks ==
    [][ /\ opt.no_fallback => (pc' \notin InArbiter /\ backup_tree' = NULL)
        /\ pc \in {"compared", "rescue"} =>
              (postbody' # postbody <=> heap[postbody].kids = <<>>)
      ]_vars
-----------------------------------------------------------------------------
(* What baseline returns *)

\* C16: for every input, also one that the HTML loader cannot parse, baseline
\* returns a body element, the main text as a string and its length as an
\* integer, in this order, the third value being the length of the second
C16_BaselineTriple ==
    pc = "baselined" =>
        /\ heap[postbody].tag = "body"
        /\ result.text.type = "str"
        /\ result.len.type = "int"
        /\ result.len.val = Len(result.text.val)

\* the value of the key articleBody in the JSON object of a script
JsonValue(t) == IF t \in {Tjson, Tonly} THEN Tab ELSE None

\* the first value of articleBody in the JSON-LD scripts of the page
FirstJson ==
    LET hits == SelectSeq(JsonScripts(heap, 1), LAMBDA n : JsonValue(heap[n].text) # None)
    IN  IF hits = <<>> THEN None ELSE JsonValue(heap[hits[1]].text)

\* the text of the first article element of the page
FirstArticle ==
    IF XPath(heap, 1, "article") = <<>> THEN None
    ELSE trim(text_content(heap, XPath(heap, 1, "article")[1]))

\* the body holds exactly one p with the text, which is the text returned
OneParagraph(txt) ==
    /\ Len(heap[postbody].kids) = 1
    /\ heap[heap[postbody].kids[1]].tag = "p"
    /\ heap[heap[postbody].kids[1]].text = txt
    /\ result.text = PyStr(txt)

\* the texts of the elements that the third source scrapes
ScrapedTexts ==
    {text_content(heap, e) : e \in {n \in 1..(postbody - 1) : heap[n].tag \in BaselineTags}}

\* the body holds one p for each of the scraped texts, none of them twice
UniqueParagraphs ==
    /\ \A k \in 1..Len(heap[postbody].kids) : heap[heap[postbody].kids[k]].tag = "p"
    /\ {heap[heap[postbody].kids[k]].text : k \in 1..Len(heap[postbody].kids)} = ScrapedTexts
    /\ Len(heap[postbody].kids) = Cardinality(ScrapedTexts)
    /\ result.text = PyStr(FlatText(heap, postbody))

\* C17: baseline tries the articleBody of JSON-LD, then the text of the first
\* article element, then the unique texts of blockquote, code, p, pre, q and
\* quote, and returns the first that gives a text that is not empty; for a
\* page that holds only a JSON-LD script with the one key articleBody and the
\* value X, the body holds exactly one p with X
C17_BaselineSources ==
    (pc = "baselined" /\ filecontent.html # <<>>) =>
        IF FirstJson # None THEN OneParagraph(FirstJson)
        ELSE IF FirstArticle # None THEN OneParagraph(FirstArticle)
        ELSE UniqueParagraphs
-----------------------------------------------------------------------------
(* C18: the rescue and the sanitizer of compare_extraction *)

\* the step over the rescue block: the body is replaced only by a classifier
\* that reports success and, under a sanitized signature, only if the chosen
\* text is not more than twice as long as the text of the classifier
ReplacedOnSuccess ==
    (pc = "chosen" /\ postbody' # postbody) =>
        /\ jt_result'
        /\ pc' = "justext"
        /\ temp_text' = FlatText(heap', postbody')
        /\ len_text' = Len(temp_text')
        /\ RescueCase(heap, postbody, len_text, opt.favor_recall,
                      config.MIN_EXTRACTED_SIZE) = "sanitized"
               => ~(len_text > 2 * len_text')

\* the step over the post-processing, with the condition under which the
\* sanitizer is taken to run
SanitizedWhen(due) ==
    pc \in {"rescued", "justext"} =>
        /\ heap' # heap => due
        /\ due => /\ heap' = sanitize_tree(heap, postbody, opt)
                  /\ temp_text' = FlatText(heap', postbody)
                  /\ len_text' = Len(temp_text')
        /\ ~due => UNCHANGED <<heap, temp_text, len_text>>
        /\ postbody' = postbody

\* C18, as stated: the sanitizer runs exactly when readability was chosen and
\* justext_rescue was not called; the classifier's body replaces the chosen one
\* only on success and, under a sanitized signature, only if the chosen text is
\* not more than twice as long
C18_SanitizerIfNotRun ==
    [][SanitizedWhen(algo_flag /\ pc = "rescued") /\ ReplacedOnSuccess]_vars

\* C18, amended: the sanitizer runs exactly when readability was chosen and
\* justext_rescue did not report success, whether it was not called or was
\* called and failed; the classifier's body replaces the chosen one only on
\* success and, under a sanitized signature, only if the chosen text is not
\* more than twice as long
C18_SanitizerIfNoSuccess ==
    [][SanitizedWhen(algo_flag /\ ~jt_result) /\ ReplacedOnSuccess]_vars

\* readability was chosen, justext_rescue was called for recall and failed, and
\* the sanitizer has stripped the formatting of the chosen body
C18_Witness ==
    /\ pc = "compared"
    /\ call = "compare_extraction"
    /\ opt.favor_recall
    /\ algo_flag
    /\ ~jt_result
    /\ postbody = algo_body
    /\ heap[postbody].kids # <<>>
    /\ temp_text # None
    /\ \A k \in 1..Len(Descendants(heap, postbody)) :
           heap[Descendants(heap, postbody)[k]].tag # "hi"
    /\ \E e \in 1..Len(heap) : heap[e].tag = "hi" /\ Parent(heap, e) = NULL /\ e > algo_body

-----------------------------------------------------------------------------
(* C19: no empty placeholder in the body of extract_content *)

\* an element of the tags of element_is_empty with no text, tail or children
EmptyPlaceholder(h, n) ==
    /\ h[n].tag \in {"p", "span", "div", "hi", "head"}
    /\ h[n].text = None
    /\ h[n].tail = None
    /\ h[n].kids = <<>>

\* C19: no element of the body returned by extract_content is an empty
\* placeholder, an element with tag in {p, span, div, hi, head} that has no
\* text, no tail and no children
C19_NoEmptyPlaceholder ==
    Returned =>
        \A k \in 1..Len(Descendants(heap, result_body)) :
            ~EmptyPlaceholder(heap, Descendants(heap, result_body)[k])

-----------------------------------------------------------------------------
(* append_child, called on a rewritten child *)

\* the characters of the texts tried: a letter, the space, the characters
\* that the two tests of spacing look for, and two that they do not
SpacingChars == {"a", SP, ".", "?", "!", ",", ":", ";", ")", "[", "(", "]", "-"}

\* the texts tried: none, a character, a character before or after a letter
SpacingTexts ==
    {None} \cup {<<c>> : c \in SpacingChars}
           \cup {<<"a", c>> : c \in SpacingChars} \cup {<<c, "a">> : c \in SpacingChars}

\* the previous siblings: an inline element with a tail, or with none
PreviousSiblings ==
    {Et("hi", <<"a">>, t, <<>>) : t \in SpacingTexts}
    \cup {E("hi", t, <<>>) : t \in SpacingTexts \ {None}}
    \cup {E("hi", <<"(">>, <<Et("ref", <<"a">>, t, <<>>)>>) : t \in {None, <<")">>, <<"[">>}}

\* the rewritten children: an inline element, one whose text is that of its
\* first child, an enumerable container of one child, an empty placeholder
RewrittenChildren ==
    {E(tg, t, <<>>) : tg \in {"hi", "graphic"}, t \in SpacingTexts}
    \cup {E("hi", None, <<E(tg, t, <<>>)>>) : tg \in {"ref", "p"}, t \in SpacingTexts \ {None}}
    \cup {E("section", t, <<E("hi", <<"b">>, <<>>)>>) : t \in {None, <<"a">>, <<".">>}}

\* the element under construction holds the previous sibling; res is apart
AppendArgs(prev, res) ==
    [h |-> Build(Build(<<>>, E("p", <<"t">>, <<prev>>)).h, res).h,
     processed_element |-> Build(<<>>, E("p", <<"t">>, <<prev>>)).r,
     res |-> Build(Build(<<>>, E("p", <<"t">>, <<prev>>)).h, res).r]

\* append_child is called; filecontent holds the arguments of the call
InitAppend ==
    \E prev \in PreviousSiblings, res \in RewrittenChildren :
        \E a \in {AppendArgs(prev, res)} :
            /\ pc = "append_child"
            /\ call = "append_child"
            /\ filecontent = [processed_element |-> a.processed_element, res |-> a.res,
                              last_element |-> a.h[a.processed_element].kids[1]]
            /\ opt = Defaults
            /\ config = Thresholds(1, 1, 1)
            /\ heap = a.h
            /\ tree = NULL
            /\ postbody = NULL
            /\ temp_text = None
            /\ len_text = 0
            /\ backup_tree = NULL
            /\ docmeta = NoMeta
            /\ commentsbody = NULL
            /\ temp_comments = None
            /\ len_comments = 0
            /\ raw_tree = NULL
            /\ result_body = NULL
            /\ potential_tags = TAG_CATALOG
            /\ tags_to_enumerate = {"article", "main", "section", "header"}
            /\ expr_i = 1
            /\ sure_thing = FALSE
            /\ algo_body = NULL
            /\ algo_flag = FALSE
            /\ jt_result = FALSE
            /\ tagname = ""
            /\ cur = NULL
            /\ myelems = <<>>
            /\ deletions = <<>>
            /\ result = Pending

\* append_child returns last_element
CallAppend ==
    /\ pc = "append_child"
    /\ call = "append_child"
    /\ \E ap \in {append_child(heap, filecontent.processed_element, filecontent.res,
                               filecontent.last_element, tags_to_enumerate)} :
          /\ heap' = ap.h
          /\ result' = [kind |-> "last_element", r |-> ap.r]
    /\ pc' = "appended"
    /\ UNCHANGED <<inputVars, pruneVars, loadVars, commentVars, contentVars, textVars, compareVars>>

NextAppend == CallAppend

SpecAppend == InitAppend /\ [][NextAppend]_vars

-----------------------------------------------------------------------------
(* C20: the space that append_child inserts *)

\* the two tests as the claim states them
StartsClosed(s) == s # None /\ s[1] \in {SP, ".", "?", "!", ",", ":", ";", ")"}
EndsOpen(s) == s # None /\ s[Len(s)] \in {SP, "[", "("}

\* the texts that the two tests are applied to
LastTextOfPrevious == get_last_text(heap, filecontent.last_element)
FirstInlineOfNew == get_first_inline_text(heap, filecontent.res)

\* C20: when append_child appends a non-empty rewritten child after a previous
\* sibling, one space is appended to the tail of the previous sibling if and
\* only if should_have_space_next of its last text and should_have_space_prior
\* of the first inline text of the child both hold; should_have_space_prior is
\* false exactly for a text that starts with a space or one of . ? ! , : ; ),
\* should_have_space_next exactly for one that ends with a space or [ or (;
\* otherwise the tail is unchanged, and the children hoisted from an
\* enumerable container get no space
C20_SpaceBetween ==
    [][(pc = "append_child" /\ ~element_is_empty(heap, filecontent.res)) =>
        /\ should_have_space_next(LastTextOfPrevious) <=> ~EndsOpen(LastTextOfPrevious)
        /\ should_have_space_prior(FirstInlineOfNew) <=> ~StartsClosed(FirstInlineOfNew)
        /\ heap'[filecontent.last_element].tail =
              IF /\ heap[filecontent.res].tag \notin tags_to_enumerate
                 /\ ~EndsOpen(LastTextOfPrevious)
                 /\ ~StartsClosed(FirstInlineOfNew)
              THEN heap[filecontent.last_element].tail \o <<SP>>
              ELSE heap[filecontent.last_element].tail
        /\ heap[filecontent.res].tag \in tags_to_enumerate =>
              /\ heap'[filecontent.processed_element].kids =
                     heap[filecontent.processed_element].kids \o heap[filecontent.res].kids
              /\ \A k \in 1..Len(heap[filecontent.res].kids) :
                     heap'[heap[filecontent.res].kids[k]].tail =
                         heap[heap[filecontent.res].kids[k]].tail
        /\ heap[filecontent.res].tag \notin tags_to_enumerate =>
              heap'[filecontent.processed_element].kids =
                  Append(heap[filecontent.processed_element].kids, filecontent.res)
      ]_vars

\* a child was appended after a sibling whose tail of two characters has got
\* a space, the child not starting on a closing character
C20_Witness ==
    /\ pc = "appended"
    /\ call = "append_child"
    /\ result.r = filecontent.res
    /\ heap[filecontent.processed_element].kids
           = <<filecontent.last_element, filecontent.res>>
    /\ Len(heap[filecontent.last_element].tail) = Len(<<"a", "a", SP>>)
    /\ heap[filecontent.last_element].tail[Len(heap[filecontent.last_element].tail)] = SP
    /\ heap[filecontent.res].text # None

-----------------------------------------------------------------------------
(* C21: no paragraph of the body ends on a line break *)

\* the paragraph ends on an lb as its last direct child
EndsOnLb(h, n) == h[n].kids # <<>> /\ h[h[n].kids[Len(h[n].kids)]].tag = "lb"

\* the paragraph has no children and no text
Hollow(h, n) == h[n].kids = <<>> /\ h[n].text = None

\* the paragraphs of the body, in document order
ParagraphsOf(h, body) == SelectSeq(Descendants(h, body), LAMBDA n : h[n].tag = "p")

\* C21: in the body returned by extract_content no paragraph has an lb as its
\* last direct child, and none is left with no children and no text, whether
\* it comes from the primary pass or from the recovery of wild text
C21_NoTrailingLb ==
    Returned =>
        \A k \in 1..Len(ParagraphsOf(heap, result_body)) :
            /\ ~EndsOnLb(heap, ParagraphsOf(heap, result_body)[k])
            /\ ~Hollow(heap, ParagraphsOf(heap, result_body)[k])

-----------------------------------------------------------------------------
(* The link-density pruning of a candidate subtree, one step at a time *)

\* a link text longer than the limit of link_density_test_tables
LongLink == E("ref", X(TableLinkLimit + 1), <<>>)

\* a table that link_density_test_tables flags, around the elements of inner
LinkTable(inner) == E("table", None, <<E("tr", None, <<E("td", None, <<LongLink>> \o inner)>>)>>)

\* an element with a text and one short link: not flagged, kept for backtracking
Teaser(tag) == E(tag, <<"a", "b", "c", "d">>, <<E("ref", <<"r">>, <<>>)>>)

\* an element whose text is that of its link: flagged
AllLink(tag, inner) == E(tag, None, <<E("ref", Tcd, <<>>)>> \o inner)

\* the candidate subtrees tried
PruneTrees ==
    { <<E("p", Tab, <<>>)>>,
      <<AllLink("p", <<>>), E("p", Tab, <<>>)>>,
      <<AllLink("div", <<>>), AllLink("div", <<>>)>>,
      <<AllLink("div", <<AllLink("div", <<>>)>>), E("p", Tab, <<>>)>>,
      <<Teaser("div"), Teaser("div"), Teaser("div")>>,
      <<Teaser("div"), Teaser("div"), E("p", Tab, <<>>)>>,
      <<Teaser("div"), AllLink("div", <<>>), Teaser("div"), Teaser("div")>>,
      <<AllLink("list", <<>>), Teaser("p")>>,
      <<AllLink("head", <<>>), E("p", Tab, <<>>)>>,
      <<LinkTable(<<>>), E("p", Tab, <<>>)>>,
      <<LinkTable(<<>>), LinkTable(<<>>)>>,
      <<LinkTable(<<LinkTable(<<>>)>>), LinkTable(<<>>)>>,
      <<E("table", None, <<E("tr", None, <<E("td", Tab, <<>>)>>)>>), LinkTable(<<>>)>> }

\* the tags that extract_content prunes by link density, in the order of its
\* calls
PruneStages ==
    <<"div", "list", "p">>
        \o (IF opt.favor_precision THEN <<"head">> ELSE <<>>)
        \o (IF "table" \in potential_tags \/ opt.favor_precision THEN <<"table">> ELSE <<>>)

\* the stage after the stage of tag, "" after the last one
StageAfter(tag) ==
    LET i == CHOOSE k \in 1..Len(PruneStages) : PruneStages[k] = tag
    IN  IF i < Len(PruneStages) THEN PruneStages[i + 1] ELSE ""

\* the elements kept for backtracking that the summing up deletes
Repeated(h, elems) ==
    SelectSeq(elems,
              LAMBDA n : /\ 0 < Len(trim(text_content(h, n)))
                         /\ Len(trim(text_content(h, n))) < 100
                         /\ Len(SelectSeq(elems, LAMBDA m : trim(text_content(h, m))
                                                           = trim(text_content(h, n)))) >= 3)

\* the pruning is called on a candidate subtree: tree is the subtree, the
\* child of an html element
InitPrune ==
    \E t \in PruneTrees, fp \in BOOLEAN, it \in BOOLEAN :
        /\ pc = "prune"
        /\ call = "delete_by_link_density"
        /\ filecontent = [html |-> <<E("html", None, <<E("article", None, t)>>)>>,
                          meta |-> NoMeta, duplicate |-> FALSE, language |-> "en"]
        /\ opt = Options([favor_precision |-> fp, include_tables |-> it])
        /\ config = Thresholds(1, 1, 1)
        /\ heap = Build(<<>>, E("html", None, <<E("article", None, t)>>)).h
        /\ tree = Build(<<>>, E("html", None, <<E("article", None, t)>>)).h[1].kids[1]
        /\ postbody = NULL
        /\ temp_text = None
        /\ len_text = 0
        /\ backup_tree = NULL
        /\ docmeta = NoMeta
        /\ commentsbody = NULL
        /\ temp_comments = None
        /\ len_comments = 0
        /\ raw_tree = NULL
        /\ result_body = NULL
        /\ potential_tags = TAG_CATALOG
                \cup (IF it THEN {"table", "td", "th", "tr"} ELSE {})
        /\ tags_to_enumerate = {"article", "main", "section", "header"}
        /\ expr_i = 1
        /\ sure_thing = FALSE
        /\ algo_body = NULL
        /\ algo_flag = FALSE
        /\ jt_result = FALSE
        /\ tagname = ""
        /\ cur = NULL
        /\ myelems = <<>>
        /\ deletions = <<>>
        /\ result = Pending

pruneFrame == <<result, inputVars, loadVars, commentVars, contentVars, textVars, compareVars>>

\* a loop over subtree.iter(tag) begins
StartStage(tag) ==
    /\ tagname' = tag
    /\ cur' = IF tag = "" THEN NULL ELSE FirstMatch(heap, tree, {tag})
    /\ myelems' = <<>>
    /\ deletions' = <<>>
    /\ pc' = IF tag = "" THEN "pruned" ELSE "iterating"

\* the first call of delete_by_link_density
PruneStart ==
    /\ pc = "prune"
    /\ StartStage(PruneStages[1])
    /\ UNCHANGED <<heap, pruneFrame>>

\* one turn of the loop of delete_by_link_density: elem is tested
PruneTest ==
    /\ pc = "iterating"
    /\ tagname # "table"
    /\ cur # NULL
    /\ \E t \in {link_density_test(heap, cur)} :
          /\ deletions' = IF t.r THEN Append(deletions, cur) ELSE deletions
          /\ myelems' = IF ~t.r /\ tagname = "div" /\ t.list # <<>>
                        THEN Append(myelems, cur) ELSE myelems
    /\ cur' = NextMatch(heap, cur, tree, {tagname})
    /\ UNCHANGED <<pc, heap, tagname, pruneFrame>>

\* the summing up, and uniquify_list(deletions)
PruneSum ==
    /\ pc = "iterating"
    /\ tagname # "table"
    /\ cur = NULL
    /\ deletions' = Uniquify(deletions \o (IF tagname = "div" THEN Repeated(heap, myelems)
                                           ELSE <<>>))
    /\ pc' = "deleting"
    /\ UNCHANGED <<heap, tagname, cur, myelems, pruneFrame>>

\* elem.getparent().remove(elem), for one element of the deletions
PruneRemove ==
    /\ pc = "deleting"
    /\ deletions # <<>>
    /\ \E d \in {RemoveAll(heap, <<Head(deletions)>>)} :
          /\ heap' = d.h
          /\ pc' = IF d.r = ERR THEN "raised" ELSE pc
          /\ result' = IF d.r = ERR THEN Raised("AttributeError") ELSE result
    /\ deletions' = Tail(deletions)
    /\ UNCHANGED <<tagname, cur, myelems, inputVars, loadVars, commentVars, contentVars,
                   textVars, compareVars>>

\* the call returns, the next one begins
PruneNext ==
    /\ pc = "deleting"
    /\ deletions = <<>>
    /\ StartStage(StageAfter(tagname))
    /\ UNCHANGED <<heap, pruneFrame>>

\* one turn of the loop over subtree.iter('table'): the iterator has moved on
\* to the next table when a flagged table is removed
PruneTable ==
    /\ pc = "iterating"
    /\ tagname = "table"
    /\ cur # NULL
    /\ cur' = NextMatch(heap, cur, tree, {"table"})
    /\ \E d \in {IF link_density_test_tables(heap, cur) THEN RemoveAll(heap, <<cur>>)
                 ELSE R(heap, NULL)} :
          /\ heap' = d.h
          /\ pc' = IF d.r = ERR THEN "raised" ELSE pc
          /\ result' = IF d.r = ERR THEN Raised("AttributeError") ELSE result
    /\ UNCHANGED <<tagname, myelems, deletions, inputVars, loadVars, commentVars,
                   contentVars, textVars, compareVars>>

\* the loop over the tables ends
PruneTablesEnd ==
    /\ pc = "iterating"
    /\ tagname = "table"
    /\ cur = NULL
    /\ StartStage("")
    /\ UNCHANGED <<heap, pruneFrame>>

NextPrune ==
    PruneStart \/ PruneTest \/ PruneSum \/ PruneRemove \/ PruneNext \/ PruneTable
        \/ PruneTablesEnd

SpecPrune == InitPrune /\ [][NextPrune]_vars

\* the steps leave what PruneByLinks computes in one go
PruneAgrees ==
    pc = "pruned" =>
        heap = PruneByLinks(Build(<<>>, filecontent.html[1]).h,
                            tree, potential_tags, opt.favor_precision).h

-----------------------------------------------------------------------------
(* C22: the pruning collects, then deletes *)

\* the elements of the subtree with the tag of the stage
Targets(h) == SelectSeq(Iter(h, tree), LAMBDA n : h[n].tag = tagname)

\* s holds no element twice
NoDuplicate(s) == \A i, j \in 1..Len(s) : s[i] = s[j] => i = j

\* no element is removed while a loop over the subtree stands on an element
NoRemovalInLoop == (pc = "iterating" /\ cur # NULL) => heap' = heap

\* when a loop has ended every flagged element of the tag is in the deletions,
\* once
AllTested ==
    (pc = "iterating" /\ pc' = "deleting") =>
        /\ NoDuplicate(deletions')
        /\ \A k \in 1..Len(Targets(heap)) :
               link_density_test(heap, Targets(heap)[k]).r =>
                   \E i \in 1..Len(deletions') : deletions'[i] = Targets(heap)[k]

\* each element of the deletions is taken from its parent, once
RemovedOnce ==
    (pc = "deleting" /\ deletions # <<>>) =>
        /\ Parent(heap, Head(deletions)) # NULL
        /\ Parent(heap', Head(deletions)) = NULL
        /\ \A i \in 1..Len(deletions') : deletions'[i] # Head(deletions)

\* C22: during the link-density pruning of a candidate subtree, for div, list,
\* p, head and table elements, every element of the tag is tested before any
\* element is removed, so that no removal happens while the iteration over the
\* subtree is in progress; the deletions are de-duplicated and each flagged
\* element is removed exactly once
C22_CollectThenDelete == [][NoRemovalInLoop /\ AllTested /\ RemovedOnce]_vars

-----------------------------------------------------------------------------
(* extract_comments, one expression at a time *)

\* what a section of comments can hold: nothing, a comment, a form, an element
\* that is no comment, a comment after a form, a section of the other class
SectionKids ==
    { <<>>,
      <<E("p", Tnice, <<>>)>>,
      <<E("form", None, <<E("p", Tab, <<>>)>>)>>,
      <<E("div", None, <<>>)>>,
      <<E("form", None, <<E("p", Tab, <<>>)>>), E("p", Tnice, <<>>)>> }

Sections == {Eac("div", Class(c), None, ks) : c \in {"comment-list", "comments"},
                                              ks \in SectionKids}

\* the documents: a paragraph and up to two sections of comments, or a section
\* in a section
CommentDocs ==
    {E("html", None, <<E("p", Tab, <<>>)>> \o s) :
        s \in {<<>>} \cup {<<a>> : a \in Sections} \cup {<<a, b>> : a, b \in Sections}}
    \cup {E("html", None, <<Eac("div", Class("comment-list"), None, <<a>>)>>) : a \in Sections}

\* one turn of the loop of extract_comments, for the k-th expression: the heap
\* after it, and whether the loop is left; the subtree stays in the tree
CommentsExprKeeping(h, top, body, pt, k) ==
    IF XPathClass(h, top, COMMENTS_XPATH[k]) = <<>> THEN [h |-> h, found |-> FALSE]
    ELSE [h |-> CommentsIn(h, XPathClass(h, top, COMMENTS_XPATH[k])[1], body, pt),
          found |-> CommentsIn(h, XPathClass(h, top, COMMENTS_XPATH[k])[1], body,
                               pt)[body].kids # <<>>]

\* one turn of the loop of extract_comments, for the k-th expression: the heap
\* after it, and whether the loop is left
CommentsExpr(h, top, body, pt, k) ==
    IF CommentsExprKeeping(h, top, body, pt, k).found
    THEN [h |-> Detach(CommentsExprKeeping(h, top, body, pt, k).h,
                       XPathClass(h, top, COMMENTS_XPATH[k])[1]),
          found |-> TRUE]
    ELSE CommentsExprKeeping(h, top, body, pt, k)

\* extract_comments is called on a document
InitComments ==
    \E d \in CommentDocs :
        /\ pc = "extract_comments"
        /\ call = "extract_comments"
        /\ filecontent = [html |-> <<d>>, meta |-> NoMeta, duplicate |-> FALSE,
                          language |-> "en"]
        /\ opt = Defaults
        /\ config = Thresholds(1, 1, 1)
        /\ heap = Build(<<>>, d).h
        /\ tree = Build(<<>>, d).r
        /\ postbody = NULL
        /\ temp_text = None
        /\ len_text = 0
        /\ Fresh

\* extract_comments, up to the loop
StartComments ==
    /\ pc = "extract_comments"
    /\ call = "extract_comments"
    /\ heap' = Append(heap, Node("body"))
    /\ commentsbody' = Len(heap) + 1
    /\ potential_tags' = TAG_CATALOG
    /\ expr_i' = 1
    /\ pc' = "comment_exprs"
    /\ UNCHANGED <<result, inputVars, pruneVars, loadVars, textVars, compareVars>>
    /\ UNCHANGED <<temp_comments, len_comments, raw_tree, result_body, tags_to_enumerate,
                   sure_thing>>

\* one expression of COMMENTS_XPATH
TryComments ==
    /\ pc = "comment_exprs"
    /\ \E c \in {CommentsExpr(heap, tree, commentsbody, potential_tags, expr_i)} :
          /\ heap' = c.h
          /\ expr_i' = IF c.found THEN expr_i ELSE expr_i + 1
          /\ pc' = IF c.found \/ expr_i = Len(COMMENTS_XPATH) THEN "lengths" ELSE pc
    /\ UNCHANGED <<result, inputVars, pruneVars, loadVars, textVars, compareVars>>
    /\ UNCHANGED <<commentVars, raw_tree, result_body, potential_tags, tags_to_enumerate,
                   sure_thing>>

\* the lengths, and the return
EndComments ==
    /\ pc = "lengths"
    /\ temp_comments' = FlatText(heap, commentsbody)
    /\ len_comments' = Len(FlatText(heap, commentsbody))
    /\ pc' = "commented"
    /\ UNCHANGED <<heap, commentsbody, result, inputVars, pruneVars, loadVars, contentVars,
                   textVars, compareVars>>

NextComments == StartComments \/ TryComments \/ EndComments

SpecComments == InitComments /\ [][NextComments]_vars

\* the steps leave what extract_comments computes in one go
CommentsAgree ==
    pc = "commented" =>
        /\ heap = extract_comments(Build(<<>>, filecontent.html[1]).h, tree).h
        /\ commentsbody = extract_comments(Build(<<>>, filecontent.html[1]).h, tree).r

-----------------------------------------------------------------------------
(* C23: the first expression with comments wins, its subtree is removed *)

\* the elements that an expression of COMMENTS_XPATH selects
Selected(h) ==
    {e \in 1..Len(h) : \E k \in 1..Len(COMMENTS_XPATH) : Get(h[e].at, "class") = COMMENTS_XPATH[k]}

\* the selected elements that are the root of a tree of their own
Removed(h) == {e \in Selected(h) : Parent(h, e) = NULL}

\* the expressions are tried in their order, up to the first one that leaves a
\* child in the comments body
CommentsInOrder ==
    pc = "comment_exprs" =>
        /\ heap[commentsbody].kids = <<>>
        /\ expr_i' \in {expr_i, expr_i + 1}
        /\ expr_i' = expr_i <=> heap'[commentsbody].kids # <<>>
        /\ pc' = "lengths" <=> (heap'[commentsbody].kids # <<>> \/ expr_i = Len(COMMENTS_XPATH))
        /\ pc' # "lengths" => pc' = "comment_exprs"

\* the subtree removed is the first match of the expression that won
WinnerRemoved ==
    pc = "comment_exprs" =>
        IF heap'[commentsbody].kids # <<>>
        THEN /\ XPathClass(heap, tree, COMMENTS_XPATH[expr_i]) # <<>>
             /\ Removed(heap') = {XPathClass(heap, tree, COMMENTS_XPATH[expr_i])[1]}
        ELSE Removed(heap') = {}

\* nothing found: an empty body, no text, no subtree removed
NothingFound ==
    (pc' = "commented" /\ heap'[commentsbody'].kids = <<>>) =>
        /\ temp_comments' = None
        /\ len_comments' = 0
        /\ Removed(heap') = {}

-----------------------------------------------------------------------------
(* C24: what the stripping of hi does to the size of the body *)

RECURSIVE Spread(_, _), SpreadSum(_, _)
\* the number of elements that stand in the place of n once the hi elements
\* are replaced by their children
Spread(h, n) == IF h[n].tag = "hi" THEN SpreadSum(h, h[n].kids) ELSE 1
SpreadSum(h, ks) == IF ks = <<>> THEN 0 ELSE Spread(h, Head(ks)) + SpreadSum(h, Tail(ks))

\* C24, as stated: the stripping of hi never decreases the number of direct
\* children of the body, so that a body over max_tree_size before the strip
\* is over it afterwards and the document is rejected
C24_StripNeverRescues ==
    [][pc = "tree_size" =>
          /\ Len(heap'[postbody].kids) >= Len(heap[postbody].kids)
          /\ TooLong(heap) => pc' = "absent"]_vars

\* C24, amended: the stripping replaces every hi that is a direct child of the
\* body by its own children, so that an hi without child elements makes the
\* body one child shorter; the document is rejected exactly when the body is
\* over max_tree_size after the strip, and a body that was over it before the
\* strip can pass
C24_StripCanRescue ==
    [][pc = "tree_size" =>
          /\ Len(heap'[postbody].kids) =
                IF TooLong(heap) THEN SpreadSum(heap, heap[postbody].kids)
                ELSE Len(heap[postbody].kids)
          /\ pc' = "absent" <=>
                /\ TooLong(heap)
                /\ \E n \in opt.max_tree_size : SpreadSum(heap, heap[postbody].kids) > n
          /\ pc' # "absent" => pc' = "sizes"]_vars

\* the body was over max_tree_size, the strip has taken an hi without child
\* elements out of it, and the body, now at the limit, has passed the check
C24_Witness ==
    /\ pc = "sizes"
    /\ opt.include_formatting
    /\ \E n \in opt.max_tree_size : Len(heap[postbody].kids) = n
    /\ heap[postbody].kids # <<>>
    /\ \E e \in 1..Len(heap) :
          /\ heap[e].tag = "hi"
          /\ heap[e].kids = <<>>
          /\ Parent(heap, e) = NULL
          /\ e > postbody

-----------------------------------------------------------------------------
(* C25: potential_tags only grows *)

\* the tags that a flag of the call gates are permitted as the flag says
GatedAsFlags(pt) ==
    /\ \A t \in {"table", "td", "th", "tr"} : t \in pt <=> opt.include_tables
    /\ "graphic" \in pt <=> opt.include_images
    /\ "ref" \in pt <=> opt.include_links

\* C25: within one call of extract_content the set potential_tags only grows:
\* after the initialisation nothing but div is added, div stays permitted for
\* every later expression and for the recovery of wild text, the recovery of
\* wild text runs with div permitted, and the tags gated by include_tables,
\* include_images and include_links are never added after the initialisation
C25_TagsOnlyGrow ==
    [][/\ potential_tags \subseteq potential_tags'
       /\ pc # "extract_content" => potential_tags' \subseteq potential_tags \cup {"div"}
       /\ (pc = "selected" /\ ~sure_thing') => "div" \in potential_tags'
       /\ GatedAsFlags(potential_tags')]_vars

\* div was permitted by an expression, not by the recovery of wild text, which
\* did not run; every expression was tried and the body was returned
C25_Witness ==
    /\ Returned
    /\ sure_thing
    /\ "div" \in potential_tags
    /\ "div" \notin TAG_CATALOG
    /\ expr_i = Len(BODY_XPATH)
    /\ heap[result_body].kids # <<>>
    /\ \A k \in 1..Len(BODY_XPATH) : XPath(heap, tree, BODY_XPATH[k]) # <<>>

=========================================================================
